---- MODULE Spec2Model ----
(***************************************************************************)
(* Invoice / billing record linkage (shane-wasteology/Data-Crosswalk).     *)
(*                                                                         *)
(* The module models join_invoice_billing in its two variants              *)
(*   "root" : src/join_invoice_billing.py                                  *)
(*   "cnm"  : src/Charge Name Mapping/join_invoice_billing.py              *)
(* as one state machine (Spec), the amount-tier comparison as a pure       *)
(* function applied to drawn inputs (SpecTier), and the ordered-rule       *)
(* classifier of extract_line_items.py (SpecClassify).                     *)
(*                                                                         *)
(* Text is a sequence of one-character strings, so that upper(), lower(),  *)
(* strip() and split() are computed and not assumed.  Money is an integer  *)
(* number of cents; the tolerances 0.02 and 1.00 are 2 and 100 cents.      *)
(***************************************************************************)
EXTENDS Integers, Sequences, FiniteSets, TLC

VARIABLES
    script,          \* which variant of join_invoice_billing runs
    invoice_csv,     \* rows of the invoice line-item CSV, as read
    billing_csv,     \* rows of the billing-charge CSV, as read
    inv_columns,     \* column names of the invoice CSV
    bill_columns,    \* column names of the billing CSV
    inv_df,          \* invoice frame with the derived columns
    bill_df,         \* billing frame with the derived columns
    pc,              \* position of the run
    common_md5s,     \* join keys present on both sides
    pending,         \* keys of the running for-loop not yet visited
    queue,           \* invoice row labels of the current key still to do
    joined_rows,     \* list of matched output rows
    unmatched_rows,  \* list of unmatched output rows
    joined_file,     \* content of the joined CSV, NoFile until written
    unmatched_file,  \* content of the unmatched CSV, NoFile until written
    mapping,         \* the mapping summary, <<>> until computed
    a_in,            \* SpecTier: the invoice amount of the pair to score
    b_in,            \* SpecTier: the billing amount of the pair to score
    tier_out,        \* SpecTier: the pairs scored so far, with their tier
    extractor,       \* SpecClassify: which extract_line_items.py runs
    description,     \* SpecClassify: the description classified last
    calls,           \* SpecClassify: number of descriptions classified
    parsed_equipment,  \* SpecClassify: equipment label of description
    parsed_material,   \* SpecClassify: material label of description
    vendor_filter,   \* SpecExtract: the vendor_filter argument of process_folder
    json_files,      \* SpecExtract: the documents found in the folder, in order
    file_i,          \* SpecExtract: number of documents gone through
    all_rows,        \* SpecExtract: detail rows collected so far
    summary,         \* SpecExtract: count and total per (vendor, description)
    errors,          \* SpecExtract: collected error messages
    folder_pc,       \* SpecExtract: position of process_folder
    downloader,      \* SpecDownload: which download_vendor_jsons.py runs
    md5_csv,         \* SpecDownload: rows of the vendor/MD5 CSV, as read
    local_files,     \* SpecDownload: the (vendor folder, MD5) files on disk
    stats,           \* SpecDownload: the outcome counters
    todo,            \* SpecDownload: labels of the rows the loops still visit
    counted,         \* SpecDownload: (row, counter) of every increment so far
    dl_pc            \* SpecDownload: position of download_vendor_jsons

vars == <<script, invoice_csv, billing_csv, inv_columns, bill_columns, inv_df,
          bill_df, pc, common_md5s,
          pending, queue, joined_rows, unmatched_rows, joined_file,
          unmatched_file, mapping, a_in, b_in, tier_out, extractor, description, calls,
          parsed_equipment, parsed_material, vendor_filter, json_files,
          file_i, all_rows, summary, errors, folder_pc, downloader, md5_csv,
          local_files, stats, todo, counted, dl_pc>>

joinVars == <<script, invoice_csv, billing_csv, inv_columns, bill_columns,
              inv_df, bill_df, pc,
              common_md5s, pending, queue, joined_rows, unmatched_rows,
              joined_file, unmatched_file, mapping>>

tierVars == <<a_in, b_in, tier_out>>

classifyVars == <<extractor, description, calls, parsed_equipment, parsed_material>>

extractVars == <<vendor_filter, json_files, file_i, all_rows, summary, errors,
                 folder_pc>>

downloadVars == <<downloader, md5_csv, local_files, stats, todo, counted, dl_pc>>

----------------------------------------------------------------------------
(* Bounds of the model.                                                    *)

\* total number of rows in the two input files
MaxRows == 3
\* SpecTier draws amounts from 0 .. MaxCents cents, the amounts of the
\* documented example and the null values
MaxCents == 104
\* SpecClassify classifies at most MaxCalls descriptions in a row
MaxCalls == 2
\* SpecExtract: a folder holds at most MaxFiles documents
MaxFiles == 3

----------------------------------------------------------------------------
(* Cell values.  A cell of a frame is a number, a text, NaN (the empty     *)
(* cell as pandas reads it) or None (what a Python function returned).     *)

Num(n) == [k |-> "num", n |-> n, s |-> <<>>]
Str(s) == [k |-> "str", n |-> 0, s |-> s]
NaN == [k |-> "nan", n |-> 0, s |-> <<>>]
None == [k |-> "none", n |-> 0, s |-> <<>>]
\* the cell of a column the file does not have (a key an object does not
\* have)
Missing == [k |-> "missing", n |-> 0, s |-> <<>>]
\* the outcome of an expression that raises an exception nothing catches
Raised == [k |-> "raise", n |-> 0, s |-> <<>>]

\* pd.isna
isna(v) == v.k \in {"nan", "none"}

\* Python truthiness of a cell value: None, 0 and "" are false, NaN is true
Truthy(v) ==
    CASE v.k = "none" -> FALSE
      [] v.k = "nan" -> TRUE
      [] v.k = "num" -> v.n # 0
      [] v.k = "str" -> v.s # <<>>

Abs(x) == IF x < 0 THEN -x ELSE x

----------------------------------------------------------------------------
(* str.upper, str.lower, str.strip, str.split, ' '.join                    *)

Lowers == <<"a","b","c","d","e","f","g","h","i","j","k","l","m",
            "n","o","p","q","r","s","t","u","v","w","x","y","z">>
Uppers == <<"A","B","C","D","E","F","G","H","I","J","K","L","M",
            "N","O","P","Q","R","S","T","U","V","W","X","Y","Z">>

LowerSet == {Lowers[i] : i \in 1..26}
UpperSet == {Uppers[i] : i \in 1..26}

\* the upper-case form of each lower-case letter, and the reverse
UpperOf == [c \in LowerSet |-> Uppers[CHOOSE i \in 1..26 : Lowers[i] = c]]
LowerOf == [c \in UpperSet |-> Lowers[CHOOSE i \in 1..26 : Uppers[i] = c]]

UpperChar(c) == IF c \in LowerSet THEN UpperOf[c] ELSE c

LowerChar(c) == IF c \in UpperSet THEN LowerOf[c] ELSE c

upper(s) == [i \in 1..Len(s) |-> UpperChar(s[i])]
lower(s) == [i \in 1..Len(s) |-> LowerChar(s[i])]

IsSpace(c) == c \in {" ", "\t"}

RECURSIVE lstrip(_)
lstrip(s) == IF s # <<>> /\ IsSpace(Head(s)) THEN lstrip(Tail(s)) ELSE s

RECURSIVE rstrip(_)
rstrip(s) ==
    IF s # <<>> /\ IsSpace(s[Len(s)]) THEN rstrip(SubSeq(s, 1, Len(s) - 1)) ELSE s

strip(s) == rstrip(lstrip(s))

\* str.split(): the maximal runs of non-space characters, in order
RECURSIVE splitFrom(_, _, _)
splitFrom(s, i, word) ==
    IF i > Len(s) THEN (IF word = <<>> THEN <<>> ELSE <<word>>)
    ELSE IF IsSpace(s[i])
         THEN (IF word = <<>> THEN <<>> ELSE <<word>>) \o splitFrom(s, i + 1, <<>>)
         ELSE splitFrom(s, i + 1, Append(word, s[i]))

split(s) == splitFrom(s, 1, <<>>)

RECURSIVE joinWords(_)
joinWords(ws) ==
    IF ws = <<>> THEN <<>>
    ELSE IF Len(ws) = 1 THEN ws[1]
    ELSE ws[1] \o <<" ">> \o joinWords(Tail(ws))

Range(f) == {f[i] : i \in DOMAIN f}

----------------------------------------------------------------------------
(* re.search for the patterns of the rule tables.  A pattern is a tree;    *)
(* Ends(re, s, i) is the set of positions at which a match of re that      *)
(* starts at position i of s can end.                                      *)

Lit(cs) == [op |-> "lit", cs |-> cs, subs |-> <<>>]
Digit == [op |-> "digit", cs |-> <<>>, subs |-> <<>>]
Space == [op |-> "space", cs |-> <<>>, subs |-> <<>>]
AnyChar == [op |-> "any", cs |-> <<>>, subs |-> <<>>]
WordB == [op |-> "wordb", cs |-> <<>>, subs |-> <<>>]
Opt(r) == [op |-> "opt", cs |-> <<>>, subs |-> <<r>>]
Star(r) == [op |-> "star", cs |-> <<>>, subs |-> <<r>>]
Plus(r) == [op |-> "plus", cs |-> <<>>, subs |-> <<r>>]
Group(r) == [op |-> "group", cs |-> <<>>, subs |-> <<r>>]
Cat(rs) == [op |-> "cat", cs |-> <<>>, subs |-> rs]
Alt(rs) == [op |-> "alt", cs |-> <<>>, subs |-> rs]
\* $ (the texts hold no line breaks)
Eol == [op |-> "eol", cs |-> <<>>, subs |-> <<>>]

Digits == {"0", "1", "2", "3", "4", "5", "6", "7", "8", "9"}
IsDigit(c) == c \in Digits
\* \w
WordChars == Digits \cup UpperSet \cup LowerSet \cup {"_"}
IsWord(c) == c \in WordChars

\* \b at position i: exactly one of the characters before and at i is \w
WordBoundary(s, i) ==
    LET before == i > 1 /\ IsWord(s[i - 1])
        at == i <= Len(s) /\ IsWord(s[i])
    IN before # at

RECURSIVE Ends(_, _, _)
RECURSIVE CatEnds(_, _, _, _)
RECURSIVE StarEnds(_, _, _, _)

Ends(re, s, i) ==
    CASE re.op = "lit" ->
            IF i + Len(re.cs) - 1 <= Len(s) /\ SubSeq(s, i, i + Len(re.cs) - 1) = re.cs
            THEN {i + Len(re.cs)} ELSE {}
      [] re.op = "digit" -> IF i <= Len(s) /\ IsDigit(s[i]) THEN {i + 1} ELSE {}
      [] re.op = "space" -> IF i <= Len(s) /\ IsSpace(s[i]) THEN {i + 1} ELSE {}
      [] re.op = "any" -> IF i <= Len(s) /\ s[i] # "\n" THEN {i + 1} ELSE {}
      [] re.op = "wordb" -> IF WordBoundary(s, i) THEN {i} ELSE {}
      [] re.op = "eol" -> IF i = Len(s) + 1 THEN {i} ELSE {}
      [] re.op = "group" -> Ends(re.subs[1], s, i)
      [] re.op = "opt" -> {i} \cup Ends(re.subs[1], s, i)
      [] re.op = "star" -> StarEnds(re.subs[1], s, {i}, {i})
      [] re.op = "plus" ->
            LET first == Ends(re.subs[1], s, i)
            IN IF first = {} THEN {} ELSE StarEnds(re.subs[1], s, first, first)
      [] re.op = "cat" -> CatEnds(re.subs, 1, s, {i})
      [] re.op = "alt" -> UNION {Ends(re.subs[k], s, i) : k \in DOMAIN re.subs}

CatEnds(subs, k, s, starts) ==
    IF k > Len(subs) \/ starts = {} THEN starts
    ELSE CatEnds(subs, k + 1, s, UNION {Ends(subs[k], s, j) : j \in starts})

StarEnds(sub, s, frontier, seen) ==
    LET more == (UNION {Ends(sub, s, j) : j \in frontier}) \ seen
    IN IF more = {} THEN seen ELSE StarEnds(sub, s, more, seen \cup more)

SetMin(S) == CHOOSE x \in S : \A y \in S : x <= y

\* re.search(pattern, s): the leftmost position a match starts at, 0 for
\* no match
search(re, s) ==
    LET starts == {i \in 1..(Len(s) + 1) : Ends(re, s, i) # {}}
    IN IF starts = {} THEN 0 ELSE SetMin(starts)

\* m.group(1) of the match found at start, for a pattern whose first group
\* is an item of the top-level sequence: the group is greedy, so it ends at
\* the last position from which the rest of the pattern still matches
group1(re, s, start) ==
    LET g == SetMin({k \in DOMAIN re.subs : re.subs[k].op = "group"})
        from == SetMin(CatEnds(SubSeq(re.subs, 1, g - 1), 1, s, {start}))
        rest == SubSeq(re.subs, g + 1, Len(re.subs))
        stops == {j \in Ends(re.subs[g], s, from) : CatEnds(rest, 1, s, {j}) # {}}
    IN SubSeq(s, from, (CHOOSE j \in stops : \A y \in stops : y <= j) - 1)

----------------------------------------------------------------------------
(* Helpers of join_invoice_billing.py                                      *)

\* clean_for_matching(text): "" for an empty cell, else the upper-cased,
\* stripped text with every whitespace run collapsed to one blank.
\* (Description cells are texts or empty.)
clean_for_matching(text) ==
    IF isna(text) THEN <<>>
    ELSE joinWords(split(strip(upper(text.s))))

\* extract_amount(value): None for an empty cell, the number for a numeric
\* cell.
extract_amount(value) ==
    IF isna(value) THEN None
    ELSE IF value.k = "num" THEN Num(value.n)
    ELSE None

\* Series.apply builds the new column from the returned values: a column
\* holding a float holds NaN in place of every None; a column of None only
\* stays a column of None.
AsColumn(values) ==
    IF \E i \in DOMAIN values : values[i].k = "num"
    THEN [i \in DOMAIN values |-> IF values[i].k = "none" THEN NaN ELSE values[i]]
    ELSE values

\* astype(str) of a key cell: the text, and 'nan' for an empty cell
astype_str(v) == IF isna(v) THEN <<"n", "a", "n">> ELSE v.s

\* .astype(str).str.strip().str.lower()
CleanMd5(v) == lower(strip(astype_str(v)))

\* Program constants of the scoring and acceptance rules (cents)
TolExact == 2
TolNear == 100
ScoreExact == 10
ScoreNear == 5
AcceptScore == 5
\* best_match = None
NoMatch == 0

\* the comparison with an empty amount read as 0.00
AmountTierNullAsZero(inv_amount, bill_amount) ==
    LET a == IF inv_amount.k = "num" THEN inv_amount.n ELSE 0
        b == IF bill_amount.k = "num" THEN bill_amount.n ELSE 0
    IN IF Abs(a - b) < TolExact THEN ScoreExact
       ELSE IF Abs(a - b) < TolNear THEN ScoreNear
       ELSE 0

\* the comparison with the second tier taken on the signed difference
AmountTierOneSided(inv_amount, bill_amount) ==
    IF Truthy(inv_amount) /\ Truthy(bill_amount)
    THEN IF inv_amount.k = "num" /\ bill_amount.k = "num"
         THEN IF Abs(inv_amount.n - bill_amount.n) < TolExact THEN ScoreExact
              ELSE IF inv_amount.n - bill_amount.n < TolNear THEN ScoreNear
              ELSE 0
         ELSE 0
    ELSE 0

\* if inv_amount and bill_amount: ... (a comparison with NaN is false)
AmountTier(inv_amount, bill_amount) ==
    IF Truthy(inv_amount) /\ Truthy(bill_amount)
    THEN IF inv_amount.k = "num" /\ bill_amount.k = "num"
         THEN IF Abs(inv_amount.n - bill_amount.n) < TolExact THEN ScoreExact
              ELSE IF Abs(inv_amount.n - bill_amount.n) < TolNear THEN ScoreNear
              ELSE 0
         ELSE 0
    ELSE 0

\* "Description word overlap" block
Overlap(inv_desc, bill_desc) ==
    IF inv_desc # <<>> /\ bill_desc # <<>>
    THEN Cardinality(Range(split(inv_desc)) \cap Range(split(bill_desc)))
    ELSE 0

\* a score that leaves the descriptions out
ScoreAmountOnly(sc, inv_row, bill_row) ==
    AmountTier(inv_row.inv_amount, bill_row.bill_amount)

\* score of one candidate pair; the "cnm" variant scores the amount only
Score(sc, inv_row, bill_row) ==
    IF sc = "root"
    THEN AmountTier(inv_row.inv_amount, bill_row.bill_amount)
         + Overlap(inv_row.inv_desc_clean, bill_row.bill_desc_clean)
    ELSE AmountTier(inv_row.inv_amount, bill_row.bill_amount)

----------------------------------------------------------------------------
(* Inputs: the cells the two files may hold.                               *)

\* join-key cells of the invoice file and of the billing file
\* (invoice side: "ZZ " or empty for the "root" variant, which cleans the
\* key, "zz" or empty for the "cnm" variant, which compares it as read;
\* billing side: "zz" or empty)
InvKeys(sc) == {IF sc = "root" THEN Str(<<"Z", "Z", " ">>) ELSE Str(<<"z", "z">>), NaN}
BillKeys == {Str(<<"z", "z">>), NaN}

\* line_amount cells: empty, 0.00, 811.00
InvAmounts == {NaN, Num(0), Num(81100)}
\* cost cells: 0.00, 811.00, 811.50
BillAmounts == {Num(0), Num(81100), Num(81150)}

\* line_description cells: empty, "a b  c d e "
InvDescs == {NaN, Str(<<"a", " ", "b", " ", " ", "c", " ", "d", " ", "e", " ">>)}
\* charge_description cells: "A B C D E", "A x a" (a word twice, in two cases)
BillDescs == {Str(<<"A", " ", "B", " ", "C", " ", "D", " ", "E">>),
              Str(<<"A", " ", "x", " ", "a">>)}

\* the columns a variant reads, under the names the extractor and the
\* billing export give them: the "root" variant joins on the MD5 column,
\* the "cnm" variant on invoice_number
InvColumnsOf(sc) ==
    IF sc = "root" THEN {"json_md5", "line_amount", "line_description"}
    ELSE {"invoice_number", "line_amount", "line_description"}
BillColumnsOf(sc) ==
    IF sc = "root" THEN {"invoice_md5", "cost", "charge_description"}
    ELSE {"invoice_number", "cost", "charge_description"}

\* rows of a file with these columns: md5 is the cell of json_md5 or
\* invoice_md5, line_amount that of line_amount or amount, line_description
\* that of line_description or description, invoice_number (billing) that
\* of invoice_number or billing_reference, cost and price those of the
\* two amount columns (these files have no price column)
InvCsvRows(sc) ==
    [md5 : IF sc = "root" THEN InvKeys(sc) ELSE {Missing},
     invoice_number : IF sc = "root" THEN {Missing} ELSE InvKeys(sc),
     line_amount : InvAmounts, line_description : InvDescs]
BillCsvRows(sc) ==
    [md5 : IF sc = "root" THEN BillKeys ELSE {Missing},
     invoice_number : IF sc = "root" THEN {Missing} ELSE BillKeys,
     cost : BillAmounts, price : {Missing}, charge_description : BillDescs]

NoFile == <<"no file">>

\* the variables of the other parts of the module, at rest
TierIdle == a_in = None /\ b_in = None /\ tier_out = <<>>

NoLabelYet == [k |-> "unset", n |-> <<>>, text |-> ""]

ClassifyIdle ==
    /\ extractor = "cnm"
    /\ description = None
    /\ calls = 0
    /\ parsed_equipment = NoLabelYet
    /\ parsed_material = NoLabelYet

ExtractIdle ==
    /\ vendor_filter = None
    /\ json_files = <<>>
    /\ file_i = 0
    /\ all_rows = <<>>
    /\ summary = <<>>
    /\ errors = <<>>
    /\ folder_pc = "walk"

NoStats == [downloaded |-> 0, not_found |-> 0, errors |-> 0, skipped |-> 0]

DownloadIdle ==
    /\ downloader = "root"
    /\ md5_csv = <<>>
    /\ local_files = {}
    /\ stats = NoStats
    /\ todo = <<>>
    /\ counted = <<>>
    /\ dl_pc = "start"

JoinIdle ==
    /\ script = "root"
    /\ invoice_csv = <<>>
    /\ billing_csv = <<>>
    /\ inv_columns = {}
    /\ bill_columns = {}
    /\ mapping = <<>>
    /\ inv_df = <<>>
    /\ bill_df = <<>>
    /\ pc = "start"
    /\ common_md5s = {}
    /\ pending = {}
    /\ queue = <<>>
    /\ joined_rows = <<>>
    /\ unmatched_rows = <<>>
    /\ joined_file = NoFile
    /\ unmatched_file = NoFile

Init ==
    /\ script \in {"root", "cnm"}
    /\ \E m \in 0..MaxRows : \E n \in 0..(MaxRows - m) :
          /\ invoice_csv \in [1..m -> InvCsvRows(script)]
          /\ billing_csv \in [1..n -> BillCsvRows(script)]
    /\ inv_columns = InvColumnsOf(script)
    /\ bill_columns = BillColumnsOf(script)
    /\ mapping = <<>>
    /\ inv_df = <<>>
    /\ bill_df = <<>>
    /\ pc = "start"
    /\ common_md5s = {}
    /\ pending = {}
    /\ queue = <<>>
    /\ joined_rows = <<>>
    /\ unmatched_rows = <<>>
    /\ joined_file = NoFile
    /\ unmatched_file = NoFile
    /\ TierIdle
    /\ ClassifyIdle
    /\ ExtractIdle
    /\ DownloadIdle

----------------------------------------------------------------------------
(* join_invoice_billing: loading                                           *)

\* the file has one of the columns
Has(cols, names) == cols \cap names # {}

\* "root": Clean MD5s, Extract amounts for matching, Normalize descriptions;
\* a file without an amount column gets a column of None, one without a
\* description column no cleaned description (read as '' by the loop).
\* "cnm": the frames are used as read; the amount of a line is
\* inv_row.get('line_amount'), that of a charge
\* bill_row.get('cost') or bill_row.get('price').
InvFrame(sc, cols, csv) ==
    IF sc = "root"
    THEN LET amounts ==
                 IF Has(cols, {"line_amount", "amount"})
                 THEN AsColumn([i \in DOMAIN csv |-> extract_amount(csv[i].line_amount)])
                 ELSE [i \in DOMAIN csv |-> None]
             described == Has(cols, {"line_description", "description"})
         IN [i \in DOMAIN csv |->
               [invoice_md5 |-> Str(CleanMd5(csv[i].md5)),
                inv_amount |-> amounts[i],
                inv_desc_clean |-> IF described
                                   THEN clean_for_matching(csv[i].line_description)
                                   ELSE <<>>,
                line_description |-> IF described THEN csv[i].line_description
                                     ELSE Str(<<>>)]]
    ELSE [i \in DOMAIN csv |->
               [invoice_md5 |-> csv[i].invoice_number,
                inv_amount |-> IF "line_amount" \in cols THEN csv[i].line_amount ELSE None,
                inv_desc_clean |-> <<>>,
                line_description |-> IF "line_description" \in cols
                                     THEN csv[i].line_description ELSE Str(<<>>)]]

\* bill_row.get('cost') or bill_row.get('price'): the cost cell when it is
\* true (an empty cell, NaN, is), else the price cell; None for a column
\* the file does not have
CostOrPrice(cols, bill_row) ==
    LET cost == IF "cost" \in cols THEN bill_row.cost ELSE None
        price == IF "price" \in cols THEN bill_row.price ELSE None
    IN IF Truthy(cost) THEN cost ELSE price

BillFrame(sc, cols, csv) ==
    IF sc = "root"
    THEN LET amounts ==
                 IF "cost" \in cols
                 THEN AsColumn([i \in DOMAIN csv |-> extract_amount(csv[i].cost)])
                 ELSE IF "price" \in cols
                 THEN AsColumn([i \in DOMAIN csv |-> extract_amount(csv[i].price)])
                 ELSE [i \in DOMAIN csv |-> None]
             described == "charge_description" \in cols
         IN [i \in DOMAIN csv |->
               [invoice_md5 |-> Str(CleanMd5(csv[i].md5)),
                bill_amount |-> amounts[i],
                bill_desc_clean |-> IF described
                                    THEN clean_for_matching(csv[i].charge_description)
                                    ELSE <<>>,
                charge_description |-> IF described THEN csv[i].charge_description
                                       ELSE Str(<<>>)]]
    ELSE [i \in DOMAIN csv |->
               [invoice_md5 |-> csv[i].invoice_number,
                bill_amount |-> CostOrPrice(cols, csv[i]),
                bill_desc_clean |-> <<>>,
                charge_description |-> IF "charge_description" \in cols
                                       THEN csv[i].charge_description ELSE Str(<<>>)]]

\* both files have the column the variant joins on ("root": json_md5 is
\* copied to invoice_md5; "cnm": billing_reference is renamed to
\* invoice_number)
HasJoinKey(sc, icols, bcols) ==
    IF sc = "root"
    THEN Has(icols, {"json_md5", "invoice_md5"}) /\ "invoice_md5" \in bcols
    ELSE "invoice_number" \in icols /\ Has(bcols, {"invoice_number", "billing_reference"})

\* loading: without the join-key column the "root" variant prints an ERROR
\* line and returns, the "cnm" variant ends in KeyError
LoadFiles ==
    /\ pc = "start"
    /\ IF HasJoinKey(script, inv_columns, bill_columns)
       THEN /\ inv_df' = InvFrame(script, inv_columns, invoice_csv)
            /\ bill_df' = BillFrame(script, bill_columns, billing_csv)
            /\ pc' = "loaded"
       ELSE /\ pc' = IF script = "root" THEN "error" ELSE "raised"
            /\ UNCHANGED <<inv_df, bill_df>>
    /\ UNCHANGED <<script, invoice_csv, billing_csv, inv_columns, bill_columns, common_md5s, pending, queue,
                   joined_rows, unmatched_rows, joined_file, unmatched_file>>
    /\ UNCHANGED <<mapping, tierVars, classifyVars, extractVars, downloadVars>>

\* set(df[key]) ("cnm": of the non-empty cells, .dropna().astype(str))
KeySet(sc, df) ==
    IF sc = "root"
    THEN {df[i].invoice_md5.s : i \in DOMAIN df}
    ELSE {astype_str(df[i].invoice_md5) : i \in {j \in DOMAIN df : ~isna(df[j].invoice_md5)}}

\* labels of the rows of a frame that carry the key, in frame order
RECURSIVE LinesFrom(_, _, _)
LinesFrom(df, md5, i) ==
    IF i > Len(df) THEN <<>>
    ELSE IF ~isna(df[i].invoice_md5) /\ df[i].invoice_md5.s = md5
         THEN <<i>> \o LinesFrom(df, md5, i + 1)
         ELSE LinesFrom(df, md5, i + 1)

\* the rows of a frame without the filter on the key
LinesAll(df, md5) == [i \in 1..Len(df) |-> i]

\* df[df['invoice_md5'] == md5]
LinesOf(df, md5) == LinesFrom(df, md5, 1)

\* the charges of a key that no matched row has taken yet
BillLinesUnclaimed(md5) ==
    SelectSeq(LinesOf(bill_df, md5),
              LAMBDA j : \A i \in DOMAIN joined_rows : joined_rows[i].charge # j)

\* bill_lines of a key: every charge of the key, for every invoice line
BillLinesFor(md5) == LinesOf(bill_df, md5)

\* Find common MD5s; with none the run returns before any row is produced
FindCommon ==
    /\ pc = "loaded"
    /\ LET common == KeySet(script, inv_df) \cap KeySet(script, bill_df)
       IN /\ common_md5s' = common
          /\ pending' = common
          /\ pc' = IF common = {} THEN "done" ELSE "join"
    /\ UNCHANGED <<script, invoice_csv, billing_csv, inv_columns, bill_columns, inv_df, bill_df, queue,
                   joined_rows, unmatched_rows, joined_file, unmatched_file>>
    /\ UNCHANGED <<mapping, tierVars, classifyVars, extractVars, downloadVars>>

----------------------------------------------------------------------------
(* join_invoice_billing: the matching loop                                 *)

\* the loop over bill_lines: a candidate replaces the best one only with a
\* strictly higher score; <<best_match, best_score>> is returned
RECURSIVE BestFrom(_, _, _, _, _, _)
BestFrom(sc, inv_row, bill_lines, i, best_match, best_score) ==
    IF i > Len(bill_lines) THEN <<best_match, best_score>>
    ELSE LET score == Score(sc, inv_row, bill_df[bill_lines[i]])
         IN IF score > best_score
            THEN BestFrom(sc, inv_row, bill_lines, i + 1, bill_lines[i], score)
            ELSE BestFrom(sc, inv_row, bill_lines, i + 1, best_match, best_score)

\* a selection in which a later candidate of equal score replaces the best
\* one: the last charge of the highest positive score
BestMatchLast(sc, inv_row, bill_lines) ==
    LET scores == [i \in DOMAIN bill_lines |-> Score(sc, inv_row, bill_df[bill_lines[i]])]
        tops == {i \in DOMAIN bill_lines :
                    scores[i] > 0 /\ \A h \in DOMAIN bill_lines : scores[h] <= scores[i]}
    IN IF tops = {} THEN <<NoMatch, 0>>
       ELSE LET last == CHOOSE i \in tops : \A h \in tops : h <= i
            IN <<bill_lines[last], scores[last]>>

\* best_match = None, best_score = 0, then the loop
BestMatch(sc, inv_row, bill_lines) == BestFrom(sc, inv_row, bill_lines, 1, NoMatch, 0)

\* acceptance without the score threshold
AcceptedAny(best) == best[1] # NoMatch

\* if best_match is not None and best_score >= 5
Accepted(best) == best[1] # NoMatch /\ best[2] >= AcceptScore

\* (inv_amount - best_match.get('bill_amount', 0)) if inv_amount else None
\* (a number minus None raises TypeError)
Variance(inv_amount, bill_amount) ==
    IF ~Truthy(inv_amount) THEN None
    ELSE IF bill_amount.k = "none" THEN Raised
    ELSE IF inv_amount.k = "num" /\ bill_amount.k = "num"
         THEN Num(inv_amount.n - bill_amount.n)
         ELSE NaN

\* the row appended to joined_rows; line, charge and score are the labels
\* of the two source rows and the score the pair was accepted with (kept
\* for the statements below, not columns of the file); the "cnm" variant
\* writes neither match_score nor amount_variance
JoinedRow(sc, line, best) ==
    LET inv_row == inv_df[line]
        best_match == bill_df[best[1]]
    IN [invoice_md5 |-> inv_row.invoice_md5.s,
        invoice_line_description |-> inv_row.line_description,
        invoice_amount |-> inv_row.inv_amount,
        billing_charge_description |-> best_match.charge_description,
        billing_amount |-> best_match.bill_amount,
        match_score |-> IF sc = "root" THEN <<best[2]>> ELSE <<>>,
        amount_variance |-> IF sc = "root"
                            THEN <<Variance(inv_row.inv_amount, best_match.bill_amount)>>
                            ELSE <<>>,
        line |-> line,
        charge |-> best[1],
        score |-> best[2]]

NoteNoMatch == "No confident match found"
NoteNoKey == "MD5 not found in billing_charges"

UnmatchedRow(line, match_score, note) ==
    [invoice_md5 |-> inv_df[line].invoice_md5.s,
     invoice_line_description |-> inv_df[line].line_description,
     invoice_amount |-> inv_df[line].inv_amount,
     match_score |-> match_score,
     note |-> note,
     line |-> line]

\* for md5 in common_md5s: (a set is iterated in no particular order)
StartGroup ==
    /\ pc = "join"
    /\ queue = <<>>
    /\ \E md5 \in pending :
          /\ queue' = LinesOf(inv_df, md5)
          /\ pending' = pending \ {md5}
    /\ UNCHANGED <<script, invoice_csv, billing_csv, inv_columns, bill_columns, inv_df, bill_df, pc,
                   common_md5s, joined_rows, unmatched_rows, joined_file,
                   unmatched_file>>
    /\ UNCHANGED <<mapping, tierVars, classifyVars, extractVars, downloadVars>>

\* missing_md5s = set(inv_df['invoice_md5']) - common_md5s
MissingMd5s == KeySet(script, inv_df) \ common_md5s

\* one pass of "for _, inv_row in inv_lines.iterrows()": score every charge
\* of the key, append the output row.  After the last row of the last key
\* the "root" variant goes on to the keys missing from billing, the "cnm"
\* variant to writing.
MatchLine ==
    /\ pc = "join"
    /\ queue # <<>>
    /\ LET line == Head(queue)
           bill_lines == BillLinesFor(inv_df[line].invoice_md5.s)
           best == BestMatch(script, inv_df[line], bill_lines)
           raises == /\ script = "root"
                     /\ Accepted(best)
                     /\ Variance(inv_df[line].inv_amount,
                                 bill_df[best[1]].bill_amount) = Raised
       IN IF raises
          THEN /\ pc' = "raised"
               /\ UNCHANGED <<joined_rows, unmatched_rows, queue, pending>>
          ELSE /\ IF Accepted(best)
                  THEN /\ joined_rows' = Append(joined_rows, JoinedRow(script, line, best))
                       /\ UNCHANGED unmatched_rows
                  ELSE /\ unmatched_rows' =
                             IF script = "root"
                             THEN Append(unmatched_rows,
                                         UnmatchedRow(line, best[2], NoteNoMatch))
                             ELSE unmatched_rows
                       /\ UNCHANGED joined_rows
               /\ queue' = Tail(queue)
               /\ IF Tail(queue) = <<>> /\ pending = {}
                  THEN IF script = "root" /\ MissingMd5s # {}
                       THEN pc' = "missing" /\ pending' = MissingMd5s
                       ELSE pc' = "save" /\ UNCHANGED pending
                  ELSE UNCHANGED <<pc, pending>>
    /\ UNCHANGED <<script, invoice_csv, billing_csv, inv_columns, bill_columns, inv_df, bill_df,
                   common_md5s, joined_file, unmatched_file>>
    /\ UNCHANGED <<mapping, tierVars, classifyVars, extractVars, downloadVars>>

\* for md5 in missing_md5s:
StartMissing ==
    /\ pc = "missing"
    /\ queue = <<>>
    /\ \E md5 \in pending :
          /\ queue' = LinesOf(inv_df, md5)
          /\ pending' = pending \ {md5}
    /\ UNCHANGED <<script, invoice_csv, billing_csv, inv_columns, bill_columns, inv_df, bill_df, pc,
                   common_md5s, joined_rows, unmatched_rows, joined_file,
                   unmatched_file>>
    /\ UNCHANGED <<mapping, tierVars, classifyVars, extractVars, downloadVars>>

\* one row of a key that billing does not have
EmitMissing ==
    /\ pc = "missing"
    /\ queue # <<>>
    /\ unmatched_rows' = Append(unmatched_rows, UnmatchedRow(Head(queue), 0, NoteNoKey))
    /\ queue' = Tail(queue)
    /\ pc' = IF Tail(queue) = <<>> /\ pending = {} THEN "save" ELSE pc
    /\ UNCHANGED <<script, invoice_csv, billing_csv, inv_columns, bill_columns, inv_df, bill_df,
                   common_md5s, pending, joined_rows, joined_file, unmatched_file>>
    /\ UNCHANGED <<mapping, tierVars, classifyVars, extractVars, downloadVars>>

\* groupby([invoice_line_description, billing_charge_description]).size():
\* one entry per pair of descriptions, with the number of rows that carry
\* it; rows with an empty cell in either column are left out by groupby
MappingCounts(rows) ==
    LET kept == {i \in DOMAIN rows : /\ ~isna(rows[i].invoice_line_description)
                                      /\ ~isna(rows[i].billing_charge_description)}
        PairOf(i) == <<rows[i].invoice_line_description, rows[i].billing_charge_description>>
    IN {[invoice_line_description |-> rows[i].invoice_line_description,
         billing_charge_description |-> rows[i].billing_charge_description,
         count |-> Cardinality({h \in kept : PairOf(h) = PairOf(i)})] : i \in kept}

\* sort_values(ascending=False): the entries by descending count (entries
\* of equal count in either order)
SortedByCount(entries) ==
    {m \in [1..Cardinality(entries) -> entries] :
        /\ \A a, b \in DOMAIN m : a # b => m[a] # m[b]
        /\ \A a, b \in DOMAIN m : a < b => m[a].count >= m[b].count}

\* .head(20) of the "root" variant
HeadRows == 20
head(sc, m) == IF sc = "root" /\ Len(m) > HeadRows THEN SubSeq(m, 1, HeadRows) ELSE m

\* joined_df['amount_variance'].abs() of the "Matched summary": a frame
\* built from rows whose amount_variance is None throughout keeps them as
\* objects, and abs() of None raises TypeError; with a number or NaN among
\* them the column is numeric
AbsRaises(rows) ==
    /\ rows # <<>>
    /\ \A i \in DOMAIN rows : rows[i].amount_variance = <<None>>

\* Save results and the mapping summary: a file is written only for a
\* non-empty list; the "cnm" variant writes the joined file only; the
\* summary is computed from the joined rows when there are any.  The "root"
\* variant prints the matched summary right after writing the joined file:
\* when that raises, the unmatched file is not written and no mapping is
\* computed.
SaveResults ==
    /\ pc = "save"
    /\ joined_file' = IF joined_rows # <<>> THEN joined_rows ELSE joined_file
    /\ IF script = "root" /\ AbsRaises(joined_rows)
       THEN /\ pc' = "raised"
            /\ UNCHANGED <<unmatched_file, mapping>>
       ELSE /\ unmatched_file' = IF script = "root" /\ unmatched_rows # <<>>
                                 THEN unmatched_rows ELSE unmatched_file
            /\ IF joined_rows # <<>>
               THEN \E m \in SortedByCount(MappingCounts(joined_rows)) :
                        mapping' = head(script, m)
               ELSE UNCHANGED mapping
            /\ pc' = "done"
    /\ UNCHANGED <<script, invoice_csv, billing_csv, inv_columns, bill_columns, inv_df, bill_df,
                   common_md5s, pending, queue, joined_rows, unmatched_rows>>
    /\ UNCHANGED <<tierVars, classifyVars, extractVars, downloadVars>>

Next ==
    \/ LoadFiles
    \/ FindCommon
    \/ StartGroup
    \/ MatchLine
    \/ StartMissing
    \/ EmitMissing
    \/ SaveResults

Spec == Init /\ [][Next]_vars

----------------------------------------------------------------------------
(* The amount comparison on its own: a pair of amounts is drawn, scored,   *)
(* and scored again with the two sides exchanged.                          *)

TierAmounts ==
    {None, NaN} \cup {Num(n) : n \in (0..MaxCents) \cup {81100, 81150, 82000}}

InitTier ==
    /\ a_in \in TierAmounts
    /\ b_in \in TierAmounts
    /\ tier_out = <<>>
    /\ JoinIdle
    /\ ClassifyIdle
    /\ ExtractIdle
    /\ DownloadIdle

ScorePair ==
    /\ Len(tier_out) < 2
    /\ tier_out' = Append(tier_out,
                          [inv_amount |-> a_in, bill_amount |-> b_in,
                           tier |-> AmountTier(a_in, b_in)])
    /\ a_in' = b_in
    /\ b_in' = a_in
    /\ UNCHANGED <<joinVars, classifyVars, extractVars, downloadVars>>

NextTier == ScorePair

SpecTier == InitTier /\ [][NextTier]_vars

----------------------------------------------------------------------------
(* Statements about join_invoice_billing                                   *)

\* number of rows of an output list produced from an invoice line
CountLine(rows, line) == Cardinality({i \in DOMAIN rows : rows[i].line = line})

\* the cleaned join key of a row of either file, as the running variant
\* compares it
KeyOf(row) ==
    IF script = "root" THEN CleanMd5(row.md5) ELSE astype_str(row.invoice_number)

BillKeySet == {KeyOf(billing_csv[j]) : j \in DOMAIN billing_csv}

\* the join-key cell of a row of either file
KeyCell(row) == IF script = "root" THEN row.md5 ELSE row.invoice_number

\* the row takes part in the grouping of the running variant: "cnm" drops
\* the empty keys (dropna), "root" reads them as the text 'nan'
Grouped(row) == script = "root" \/ ~isna(KeyCell(row))

\* labels of the charges that share the key of an invoice line
GroupOf(line) ==
    {j \in DOMAIN billing_csv : /\ Grouped(invoice_csv[line])
                                /\ Grouped(billing_csv[j])
                                /\ KeyOf(billing_csv[j]) = KeyOf(invoice_csv[line])}

\* the highest score of an invoice line over the charges of its key, 0 with
\* none
SetMax(S) == CHOOSE x \in S : \A y \in S : y <= x

MaxScore(line) ==
    SetMax({0} \cup {Score(script, inv_df[line], bill_df[j]) : j \in GroupOf(line)})

\* C1: a line item is in the matched output only with a selected candidate
\* of total score >= 5: every matched row was accepted with a score of at
\* least 5, that score is the score of the pair of rows it records, and
\* the match_score it carries is not below 5.
C1_MatchedScoreAtLeastFive ==
    \A i \in DOMAIN joined_rows :
        LET r == joined_rows[i]
        IN /\ r.score >= AcceptScore
           /\ Score(script, inv_df[r.line], bill_df[r.charge]) = r.score
           /\ script = "root" => r.match_score = <<r.score>>

\* C1 witness: a finished run that matched one line with exactly 5 and
\* left another line, whose best candidate scored between 1 and 4, unmatched
C1_Witness ==
    /\ pc = "done"
    /\ \E i \in DOMAIN joined_rows : joined_rows[i].score = AcceptScore
    /\ \E i \in DOMAIN unmatched_rows :
          /\ unmatched_rows[i].match_score \in 1..(AcceptScore - 1)
          /\ unmatched_rows[i].note = NoteNoMatch

\* C2: after a run every input line item has produced exactly one output
\* record, a matched row or an unmatched row, never none and never both.
C2_ExactlyOneRecordPerLine ==
    pc = "done" =>
        \A line \in DOMAIN invoice_csv :
            CountLine(joined_rows, line) + CountLine(unmatched_rows, line) = 1

\* C4: matching stays inside the join-key group: the charge a matched row
\* records has the cleaned join key of its line item, and the billing
\* fields of the row are those of that one charge.
C4_MatchWithinGroup ==
    \A i \in DOMAIN joined_rows :
        LET r == joined_rows[i]
        IN /\ r.line \in DOMAIN invoice_csv
           /\ r.charge \in DOMAIN billing_csv
           /\ KeyOf(billing_csv[r.charge]) = KeyOf(invoice_csv[r.line])
           /\ r.invoice_md5 = KeyOf(invoice_csv[r.line])
           /\ r.billing_charge_description = billing_csv[r.charge].charge_description
           /\ r.billing_amount = bill_df[r.charge].bill_amount

\* C4 witness: a finished run with a matched row while the billing file
\* also holds a charge of another key with the very same amount
C4_Witness ==
    /\ pc = "done"
    /\ \E i \in DOMAIN joined_rows : \E j \in DOMAIN billing_csv :
          /\ KeyOf(billing_csv[j]) # joined_rows[i].invoice_md5
          /\ AmountTier(inv_df[joined_rows[i].line].inv_amount,
                        bill_df[j].bill_amount) = ScoreExact

\* C5: every line item whose join key billing does not have is in the
\* unmatched output with match_score 0 and the 'not found' note, whatever
\* the two inputs are (src/join_invoice_billing.py).
C5_KeyNotFoundReported ==
    (script = "root" /\ pc = "done") =>
        \A line \in DOMAIN invoice_csv :
            KeyOf(invoice_csv[line]) \notin BillKeySet =>
                \E i \in DOMAIN unmatched_rows :
                    /\ unmatched_rows[i].line = line
                    /\ unmatched_rows[i].match_score = 0
                    /\ unmatched_rows[i].note = NoteNoKey

\* C6: every line item whose key billing has, but none of whose candidates
\* scores 5 or more, is in the unmatched output with its highest candidate
\* score and a note other than the 'not found' note.
C6_BelowThresholdReported ==
    pc = "done" =>
        \A line \in DOMAIN invoice_csv :
            (GroupOf(line) # {} /\ MaxScore(line) < AcceptScore) =>
                \E i \in DOMAIN unmatched_rows :
                    /\ unmatched_rows[i].line = line
                    /\ unmatched_rows[i].match_score = MaxScore(line)
                    /\ unmatched_rows[i].note # NoteNoKey

\* line items with an empty amount and an empty description
NullLines ==
    {line \in DOMAIN invoice_csv :
        isna(invoice_csv[line].line_amount) /\ isna(invoice_csv[line].line_description)}

C9_SelectionIgnoresEarlierClaims ==
    /\ \A i \in DOMAIN joined_rows :
          LET r == joined_rows[i]
              best == BestMatch(script, inv_df[r.line], LinesOf(bill_df, r.invoice_md5))
          IN Accepted(best) /\ r.charge = best[1]
    /\ \A i \in DOMAIN unmatched_rows :
          LET u == unmatched_rows[i]
          IN u.note = NoteNoMatch =>
                ~Accepted(BestMatch(script, inv_df[u.line], LinesOf(bill_df, u.invoice_md5)))

\* C9 witness: two different line items of one key, whose key has a single
\* charge, both matched to that charge
C9_Witness ==
    /\ script = "root"
    /\ pc = "done"
    /\ \E i, k \in DOMAIN joined_rows :
          /\ joined_rows[i].line # joined_rows[k].line
          /\ joined_rows[i].charge = joined_rows[k].charge
          /\ joined_rows[i].invoice_md5 = joined_rows[k].invoice_md5
          /\ Cardinality(GroupOf(joined_rows[i].line)) = 1

----------------------------------------------------------------------------
(* Statements about the amount comparison (SpecTier)                       *)

\* C3: for every pair of present amounts the tier is 10 when they differ
\* by less than 0.02, 5 when by less than 1.00, else 0; 811.00 against
\* 811.00, 811.50 and 820.00 gives 10, 5 and 0.
C3_TierByDifference ==
    \A i \in DOMAIN tier_out :
        LET p == tier_out[i]
        IN (p.inv_amount.k = "num" /\ p.bill_amount.k = "num") =>
              p.tier = IF Abs(p.inv_amount.n - p.bill_amount.n) < 2 THEN 10
                       ELSE IF Abs(p.inv_amount.n - p.bill_amount.n) < 100 THEN 5
                       ELSE 0

\* C8: the tier of (a, b) equals the tier of (b, a), for present and absent
\* amounts alike.
C8_TierSymmetric ==
    Len(tier_out) = 2 =>
        /\ tier_out[1].inv_amount = tier_out[2].bill_amount
        /\ tier_out[1].bill_amount = tier_out[2].inv_amount
        /\ tier_out[1].tier = tier_out[2].tier

\* C8 witness: both orders of a pair of different amounts were scored and
\* gave the within-1.00 tier
C8_Witness ==
    /\ Len(tier_out) = 2
    /\ tier_out[1].inv_amount # tier_out[1].bill_amount
    /\ tier_out[1].tier = ScoreNear
    /\ tier_out[2].tier = ScoreNear

----------------------------------------------------------------------------
(* The classifier of extract_line_items.py ("cnm") and of                  *)
(* scripts/extract_line_items.py ("scripts"): ordered rule tables.         *)
(* A label is the captured number followed by the fixed text of the rule.  *)

\* EQUIPMENT_PATTERNS of extract_line_items.py, in declared order
EQUIPMENT_PATTERNS_CNM ==
    <<
      \* 1: \b(\d+)\s*YA?RD\s*(COMPACTOR|COMP)\b
      [re |-> Cat(<<WordB, Group(Plus(Digit)), Star(Space), Lit(<<"Y">>),
        Opt(Lit(<<"A">>)), Lit(<<"R", "D">>), Star(Space),
        Group(Alt(<<Lit(<<"C", "O", "M", "P", "A", "C", "T", "O", "R">>),
        Lit(<<"C", "O", "M", "P">>)>>)), WordB>>), cap |-> TRUE,
        label |-> "YD COMPACTOR"],
      \* 2: \b(\d+)\s*YA?RD\s*(ROLL.?OFF|RO)\b
      [re |-> Cat(<<WordB, Group(Plus(Digit)), Star(Space), Lit(<<"Y">>),
        Opt(Lit(<<"A">>)), Lit(<<"R", "D">>), Star(Space),
        Group(Alt(<<Cat(<<Lit(<<"R", "O", "L", "L">>), Opt(AnyChar),
        Lit(<<"O", "F", "F">>)>>), Lit(<<"R", "O">>)>>)), WordB>>),
        cap |-> TRUE, label |-> "YD ROLL OFF"],
      \* 3: \b(\d+)\s*YA?RD\s*(FRONT.?LOAD|FL)\b
      [re |-> Cat(<<WordB, Group(Plus(Digit)), Star(Space), Lit(<<"Y">>),
        Opt(Lit(<<"A">>)), Lit(<<"R", "D">>), Star(Space),
        Group(Alt(<<Cat(<<Lit(<<"F", "R", "O", "N", "T">>), Opt(AnyChar),
        Lit(<<"L", "O", "A", "D">>)>>), Lit(<<"F", "L">>)>>)), WordB>>),
        cap |-> TRUE, label |-> "YD FRONT LOAD"],
      \* 4: \b(\d+)\s*YA?RD\s*(REAR.?LOAD|RL)\b
      [re |-> Cat(<<WordB, Group(Plus(Digit)), Star(Space), Lit(<<"Y">>),
        Opt(Lit(<<"A">>)), Lit(<<"R", "D">>), Star(Space),
        Group(Alt(<<Cat(<<Lit(<<"R", "E", "A", "R">>), Opt(AnyChar),
        Lit(<<"L", "O", "A", "D">>)>>), Lit(<<"R", "L">>)>>)), WordB>>),
        cap |-> TRUE, label |-> "YD REAR LOAD"],
      \* 5: \b(\d+)\s*YA?RD\b
      [re |-> Cat(<<WordB, Group(Plus(Digit)), Star(Space), Lit(<<"Y">>),
        Opt(Lit(<<"A">>)), Lit(<<"R", "D">>), WordB>>), cap |-> TRUE,
        label |-> "YD"],
      \* 6: \bCOMPACTOR\b
      [re |-> Cat(<<WordB, Lit(<<"C", "O", "M", "P", "A", "C", "T", "O",
        "R">>), WordB>>), cap |-> FALSE, label |-> "COMPACTOR"],
      \* 7: \bROLL.?OFF\b
      [re |-> Cat(<<WordB, Lit(<<"R", "O", "L", "L">>), Opt(AnyChar),
        Lit(<<"O", "F", "F">>), WordB>>), cap |-> FALSE,
        label |-> "ROLL OFF"],
      \* 8: \bFRONT.?LOAD\b
      [re |-> Cat(<<WordB, Lit(<<"F", "R", "O", "N", "T">>), Opt(AnyChar),
        Lit(<<"L", "O", "A", "D">>), WordB>>), cap |-> FALSE,
        label |-> "FRONT LOAD"],
      \* 9: \bREAR.?LOAD\b
      [re |-> Cat(<<WordB, Lit(<<"R", "E", "A", "R">>), Opt(AnyChar),
        Lit(<<"L", "O", "A", "D">>), WordB>>), cap |-> FALSE,
        label |-> "REAR LOAD"],
      \* 10: \b(\d+)\s*GAL(LON)?\b
      [re |-> Cat(<<WordB, Group(Plus(Digit)), Star(Space), Lit(<<"G", "A",
        "L">>), Opt(Group(Lit(<<"L", "O", "N">>))), WordB>>), cap |-> TRUE,
        label |-> "GAL"],
      \* 11: \b(\d+)\s*CU(BIC)?\s*YD\b
      [re |-> Cat(<<WordB, Group(Plus(Digit)), Star(Space), Lit(<<"C",
        "U">>), Opt(Group(Lit(<<"B", "I", "C">>))), Star(Space), Lit(<<"Y",
        "D">>), WordB>>), cap |-> TRUE, label |-> "YD"]
    >>

\* MATERIAL_PATTERNS of extract_line_items.py, in declared order
MATERIAL_PATTERNS_CNM ==
    <<
      \* 1: \bCARDBOARD|OCC\b
      [re |-> Alt(<<Cat(<<WordB, Lit(<<"C", "A", "R", "D", "B", "O", "A",
        "R", "D">>)>>), Cat(<<Lit(<<"O", "C", "C">>), WordB>>)>>),
        cap |-> FALSE, label |-> "Cardboard"],
      \* 2: \bPAPER\b
      [re |-> Cat(<<WordB, Lit(<<"P", "A", "P", "E", "R">>), WordB>>),
        cap |-> FALSE, label |-> "Paper"],
      \* 3: \bPLASTIC|HDPE|PET\b
      [re |-> Alt(<<Cat(<<WordB, Lit(<<"P", "L", "A", "S", "T", "I",
        "C">>)>>), Lit(<<"H", "D", "P", "E">>), Cat(<<Lit(<<"P", "E", "T">>),
        WordB>>)>>), cap |-> FALSE, label |-> "Plastic"],
      \* 4: \bMETAL|SCRAP\s*METAL|ALUMINUM\b
      [re |-> Alt(<<Cat(<<WordB, Lit(<<"M", "E", "T", "A", "L">>)>>),
        Cat(<<Lit(<<"S", "C", "R", "A", "P">>), Star(Space), Lit(<<"M", "E",
        "T", "A", "L">>)>>), Cat(<<Lit(<<"A", "L", "U", "M", "I", "N", "U",
        "M">>), WordB>>)>>), cap |-> FALSE, label |-> "Metal"],
      \* 5: \bGLASS\b
      [re |-> Cat(<<WordB, Lit(<<"G", "L", "A", "S", "S">>), WordB>>),
        cap |-> FALSE, label |-> "Glass"],
      \* 6: \bWOOD|PALLETS?\b
      [re |-> Alt(<<Cat(<<WordB, Lit(<<"W", "O", "O", "D">>)>>),
        Cat(<<Lit(<<"P", "A", "L", "L", "E", "T">>), Opt(Lit(<<"S">>)),
        WordB>>)>>), cap |-> FALSE, label |-> "Wood"],
      \* 7: \bORGANIC|FOOD\s*WASTE|COMPOST\b
      [re |-> Alt(<<Cat(<<WordB, Lit(<<"O", "R", "G", "A", "N", "I",
        "C">>)>>), Cat(<<Lit(<<"F", "O", "O", "D">>), Star(Space), Lit(<<"W",
        "A", "S", "T", "E">>)>>), Cat(<<Lit(<<"C", "O", "M", "P", "O", "S",
        "T">>), WordB>>)>>), cap |-> FALSE, label |-> "Organic"],
      \* 8: \bE-?WASTE|ELECTRONIC\b
      [re |-> Alt(<<Cat(<<WordB, Lit(<<"E">>), Opt(Lit(<<"-">>)), Lit(<<"W",
        "A", "S", "T", "E">>)>>), Cat(<<Lit(<<"E", "L", "E", "C", "T", "R",
        "O", "N", "I", "C">>), WordB>>)>>), cap |-> FALSE,
        label |-> "E-Waste"],
      \* 9: \bC&D|CONSTRUCTION|DEMO(LITION)?\b
      [re |-> Alt(<<Cat(<<WordB, Lit(<<"C", "&", "D">>)>>), Lit(<<"C", "O",
        "N", "S", "T", "R", "U", "C", "T", "I", "O", "N">>), Cat(<<Lit(<<"D",
        "E", "M", "O">>), Opt(Group(Lit(<<"L", "I", "T", "I", "O", "N">>))),
        WordB>>)>>), cap |-> FALSE, label |-> "C&D"],
      \* 10: \bMSW|TRASH|GARBAGE|REFUSE\b
      [re |-> Alt(<<Cat(<<WordB, Lit(<<"M", "S", "W">>)>>), Lit(<<"T", "R",
        "A", "S", "H">>), Lit(<<"G", "A", "R", "B", "A", "G", "E">>),
        Cat(<<Lit(<<"R", "E", "F", "U", "S", "E">>), WordB>>)>>),
        cap |-> FALSE, label |-> "MSW"],
      \* 11: \bRECYCL(E|ING|ABLES?)\b
      [re |-> Cat(<<WordB, Lit(<<"R", "E", "C", "Y", "C", "L">>),
        Group(Alt(<<Lit(<<"E">>), Lit(<<"I", "N", "G">>), Cat(<<Lit(<<"A",
        "B", "L", "E">>), Opt(Lit(<<"S">>))>>)>>)), WordB>>), cap |-> FALSE,
        label |-> "Recycling"]
    >>

\* EQUIPMENT_PATTERNS of scripts/extract_line_items.py, in declared order
EQUIPMENT_PATTERNS_SCRIPTS ==
    <<
      \* 1: \b(\d+)\s*YA?RD?\s*(COMPACTOR|COMP)\b
      [re |-> Cat(<<WordB, Group(Plus(Digit)), Star(Space), Lit(<<"Y">>),
        Opt(Lit(<<"A">>)), Lit(<<"R">>), Opt(Lit(<<"D">>)), Star(Space),
        Group(Alt(<<Lit(<<"C", "O", "M", "P", "A", "C", "T", "O", "R">>),
        Lit(<<"C", "O", "M", "P">>)>>)), WordB>>), cap |-> TRUE,
        label |-> " Yard Compactor"],
      \* 2: \b(\d+)\s*YA?RD?\s*(ROLL.?OFF|RO)\b
      [re |-> Cat(<<WordB, Group(Plus(Digit)), Star(Space), Lit(<<"Y">>),
        Opt(Lit(<<"A">>)), Lit(<<"R">>), Opt(Lit(<<"D">>)), Star(Space),
        Group(Alt(<<Cat(<<Lit(<<"R", "O", "L", "L">>), Opt(AnyChar),
        Lit(<<"O", "F", "F">>)>>), Lit(<<"R", "O">>)>>)), WordB>>),
        cap |-> TRUE, label |-> " Yard Roll Off"],
      \* 3: \b(\d+)\s*YA?RD?\s*(FRONT.?LOAD|FL)\b
      [re |-> Cat(<<WordB, Group(Plus(Digit)), Star(Space), Lit(<<"Y">>),
        Opt(Lit(<<"A">>)), Lit(<<"R">>), Opt(Lit(<<"D">>)), Star(Space),
        Group(Alt(<<Cat(<<Lit(<<"F", "R", "O", "N", "T">>), Opt(AnyChar),
        Lit(<<"L", "O", "A", "D">>)>>), Lit(<<"F", "L">>)>>)), WordB>>),
        cap |-> TRUE, label |-> " Yard Front Load"],
      \* 4: \b(\d+)\s*YA?RD?\s*(REAR.?LOAD|RL)\b
      [re |-> Cat(<<WordB, Group(Plus(Digit)), Star(Space), Lit(<<"Y">>),
        Opt(Lit(<<"A">>)), Lit(<<"R">>), Opt(Lit(<<"D">>)), Star(Space),
        Group(Alt(<<Cat(<<Lit(<<"R", "E", "A", "R">>), Opt(AnyChar),
        Lit(<<"L", "O", "A", "D">>)>>), Lit(<<"R", "L">>)>>)), WordB>>),
        cap |-> TRUE, label |-> " Yard Rear Load"],
      \* 5: \b(\d+)\s*YA?RD?\s*(OPEN.?TOP|OT)\b
      [re |-> Cat(<<WordB, Group(Plus(Digit)), Star(Space), Lit(<<"Y">>),
        Opt(Lit(<<"A">>)), Lit(<<"R">>), Opt(Lit(<<"D">>)), Star(Space),
        Group(Alt(<<Cat(<<Lit(<<"O", "P", "E", "N">>), Opt(AnyChar),
        Lit(<<"T", "O", "P">>)>>), Lit(<<"O", "T">>)>>)), WordB>>),
        cap |-> TRUE, label |-> " Yard Open Top"],
      \* 6: \b(\d+)\s*CY\b
      [re |-> Cat(<<WordB, Group(Plus(Digit)), Star(Space), Lit(<<"C",
        "Y">>), WordB>>), cap |-> TRUE, label |-> " Yard"],
      \* 7: \bCOMPACTOR\b
      [re |-> Cat(<<WordB, Lit(<<"C", "O", "M", "P", "A", "C", "T", "O",
        "R">>), WordB>>), cap |-> FALSE, label |-> "Compactor"],
      \* 8: \bROLL.?OFF\b
      [re |-> Cat(<<WordB, Lit(<<"R", "O", "L", "L">>), Opt(AnyChar),
        Lit(<<"O", "F", "F">>), WordB>>), cap |-> FALSE,
        label |-> "Roll Off"],
      \* 9: \bFRONT.?LOAD\b
      [re |-> Cat(<<WordB, Lit(<<"F", "R", "O", "N", "T">>), Opt(AnyChar),
        Lit(<<"L", "O", "A", "D">>), WordB>>), cap |-> FALSE,
        label |-> "Front Load"],
      \* 10: \bREAR.?LOAD\b
      [re |-> Cat(<<WordB, Lit(<<"R", "E", "A", "R">>), Opt(AnyChar),
        Lit(<<"L", "O", "A", "D">>), WordB>>), cap |-> FALSE,
        label |-> "Rear Load"],
      \* 11: \bOPEN.?TOP\b
      [re |-> Cat(<<WordB, Lit(<<"O", "P", "E", "N">>), Opt(AnyChar),
        Lit(<<"T", "O", "P">>), WordB>>), cap |-> FALSE,
        label |-> "Open Top"],
      \* 12: \b(\d+)\s*GAL(LON)?\b
      [re |-> Cat(<<WordB, Group(Plus(Digit)), Star(Space), Lit(<<"G", "A",
        "L">>), Opt(Group(Lit(<<"L", "O", "N">>))), WordB>>), cap |-> TRUE,
        label |-> " Gallon"],
      \* 13: \bTOTER\b
      [re |-> Cat(<<WordB, Lit(<<"T", "O", "T", "E", "R">>), WordB>>),
        cap |-> FALSE, label |-> "Toter"]
    >>

\* MATERIAL_PATTERNS of scripts/extract_line_items.py, in declared order
MATERIAL_PATTERNS_SCRIPTS ==
    <<
      \* 1: \bCARDBOARD|OCC\b
      [re |-> Alt(<<Cat(<<WordB, Lit(<<"C", "A", "R", "D", "B", "O", "A",
        "R", "D">>)>>), Cat(<<Lit(<<"O", "C", "C">>), WordB>>)>>),
        cap |-> FALSE, label |-> "OCC"],
      \* 2: \bPAPER\b
      [re |-> Cat(<<WordB, Lit(<<"P", "A", "P", "E", "R">>), WordB>>),
        cap |-> FALSE, label |-> "Paper"],
      \* 3: \bPLASTIC|HDPE|PET\b
      [re |-> Alt(<<Cat(<<WordB, Lit(<<"P", "L", "A", "S", "T", "I",
        "C">>)>>), Lit(<<"H", "D", "P", "E">>), Cat(<<Lit(<<"P", "E", "T">>),
        WordB>>)>>), cap |-> FALSE, label |-> "Plastic"],
      \* 4: \bMETAL|SCRAP\s*METAL|ALUMINUM\b
      [re |-> Alt(<<Cat(<<WordB, Lit(<<"M", "E", "T", "A", "L">>)>>),
        Cat(<<Lit(<<"S", "C", "R", "A", "P">>), Star(Space), Lit(<<"M", "E",
        "T", "A", "L">>)>>), Cat(<<Lit(<<"A", "L", "U", "M", "I", "N", "U",
        "M">>), WordB>>)>>), cap |-> FALSE, label |-> "Metal"],
      \* 5: \bGLASS\b
      [re |-> Cat(<<WordB, Lit(<<"G", "L", "A", "S", "S">>), WordB>>),
        cap |-> FALSE, label |-> "Glass"],
      \* 6: \bWOOD|PALLETS?\b
      [re |-> Alt(<<Cat(<<WordB, Lit(<<"W", "O", "O", "D">>)>>),
        Cat(<<Lit(<<"P", "A", "L", "L", "E", "T">>), Opt(Lit(<<"S">>)),
        WordB>>)>>), cap |-> FALSE, label |-> "Wood"],
      \* 7: \bORGANIC|FOOD\s*WASTE|COMPOST\b
      [re |-> Alt(<<Cat(<<WordB, Lit(<<"O", "R", "G", "A", "N", "I",
        "C">>)>>), Cat(<<Lit(<<"F", "O", "O", "D">>), Star(Space), Lit(<<"W",
        "A", "S", "T", "E">>)>>), Cat(<<Lit(<<"C", "O", "M", "P", "O", "S",
        "T">>), WordB>>)>>), cap |-> FALSE, label |-> "Organic"],
      \* 8: \bE-?WASTE|ELECTRONIC\b
      [re |-> Alt(<<Cat(<<WordB, Lit(<<"E">>), Opt(Lit(<<"-">>)), Lit(<<"W",
        "A", "S", "T", "E">>)>>), Cat(<<Lit(<<"E", "L", "E", "C", "T", "R",
        "O", "N", "I", "C">>), WordB>>)>>), cap |-> FALSE,
        label |-> "E-Waste"],
      \* 9: \bC&D|CONSTRUCTION|DEMO(LITION)?\b
      [re |-> Alt(<<Cat(<<WordB, Lit(<<"C", "&", "D">>)>>), Lit(<<"C", "O",
        "N", "S", "T", "R", "U", "C", "T", "I", "O", "N">>), Cat(<<Lit(<<"D",
        "E", "M", "O">>), Opt(Group(Lit(<<"L", "I", "T", "I", "O", "N">>))),
        WordB>>)>>), cap |-> FALSE, label |-> "C&D"],
      \* 10: \bMSW|TRASH|GARBAGE|REFUSE\b
      [re |-> Alt(<<Cat(<<WordB, Lit(<<"M", "S", "W">>)>>), Lit(<<"T", "R",
        "A", "S", "H">>), Lit(<<"G", "A", "R", "B", "A", "G", "E">>),
        Cat(<<Lit(<<"R", "E", "F", "U", "S", "E">>), WordB>>)>>),
        cap |-> FALSE, label |-> "Trash"],
      \* 11: \bRECYCL(E|ING|ABLES?)?\b
      [re |-> Cat(<<WordB, Lit(<<"R", "E", "C", "Y", "C", "L">>),
        Opt(Group(Alt(<<Lit(<<"E">>), Lit(<<"I", "N", "G">>),
        Cat(<<Lit(<<"A", "B", "L", "E">>), Opt(Lit(<<"S">>))>>)>>))),
        WordB>>), cap |-> FALSE, label |-> "Recycling"]
    >>

EQUIPMENT_PATTERNS(ex) ==
    IF ex = "cnm" THEN EQUIPMENT_PATTERNS_CNM ELSE EQUIPMENT_PATTERNS_SCRIPTS

MATERIAL_PATTERNS(ex) ==
    IF ex = "cnm" THEN MATERIAL_PATTERNS_CNM ELSE MATERIAL_PATTERNS_SCRIPTS

Label(n, t) == [k |-> "str", n |-> n, text |-> t]
NoneLabel == [k |-> "none", n |-> <<>>, text |-> ""]

\* what the functions return when no rule matches: None in
\* extract_line_items.py, '' in scripts/extract_line_items.py
NoMatchValue(ex) == IF ex = "cnm" THEN NoneLabel ELSE Label(<<>>, "")

\* handler(match): f"{m.group(1)}<text>" or the fixed text
ApplyHandler(rule, s, start) ==
    Label(IF rule.cap THEN group1(rule.re, s, start) ELSE <<>>, rule.label)

\* a loop that keeps going after a match, so that the last matching rule
\* decides
RECURSIVE LastMatchFrom(_, _, _, _)
LastMatchFrom(rules, k, s, nomatch) ==
    IF k > Len(rules) THEN nomatch
    ELSE LET later == LastMatchFrom(rules, k + 1, s, nomatch)
             m == search(rules[k].re, s)
         IN IF later # nomatch THEN later
            ELSE IF m # 0 THEN ApplyHandler(rules[k], s, m)
            ELSE nomatch

\* for pattern, handler in PATTERNS: return at the first rule that matches
RECURSIVE FirstMatchFrom(_, _, _, _)
FirstMatchFrom(rules, k, s, nomatch) ==
    IF k > Len(rules) THEN nomatch
    ELSE LET m == search(rules[k].re, s)
         IN IF m # 0 THEN ApplyHandler(rules[k], s, m)
            ELSE FirstMatchFrom(rules, k + 1, s, nomatch)

\* extract_equipment_from_description / extract_equipment
extract_equipment(ex, d) ==
    IF ~Truthy(d) THEN NoMatchValue(ex)
    ELSE FirstMatchFrom(EQUIPMENT_PATTERNS(ex), 1, upper(d.s), NoMatchValue(ex))

\* extract_material_from_description / extract_material
extract_material(ex, d) ==
    IF ~Truthy(d) THEN NoMatchValue(ex)
    ELSE FirstMatchFrom(MATERIAL_PATTERNS(ex), 1, upper(d.s), NoMatchValue(ex))

(* Descriptions: the sentences below with any of their words left out.     *)
Sentences ==
    LET W_12 == <<"1", "2">>
        W_12yd == <<"1", "2", "Y", "D">>
        W_30yrd == <<"3", "0", "y", "r", "d">>
        W_yard == <<"y", "a", "r", "d">>
        W_roll == <<"R", "o", "l", "l">>
        W_off == <<"O", "f", "f">>
        W_compactor == <<"c", "o", "m", "p", "a", "c", "t", "o", "r">>
        W_fl == <<"F", "L">>
        W_96 == <<"9", "6">>
        W_gal == <<"g", "a", "l">>
        W_cardboard == <<"C", "a", "r", "d", "b", "o", "a", "r", "d">>
        W_paper == <<"p", "a", "p", "e", "r">>
        W_recycling == <<"R", "E", "C", "Y", "C", "L", "I", "N", "G">>
        W_trash == <<"t", "r", "a", "s", "h">>
        W_fee == <<"f", "e", "e">>
    IN {<<W_12, W_yard, W_roll, W_off, W_compactor>>,
       <<W_12yd, W_roll, W_off, W_compactor>>,
       <<W_30yrd, W_fl, W_96, W_gal>>,
       <<W_cardboard, W_paper, W_recycling, W_trash>>,
       <<W_fee, W_trash, W_compactor>>,
       <<W_12, W_yard, W_compactor, W_cardboard, W_paper>>}

\* the words of a sentence that a mask keeps, in order
RECURSIVE Keep(_, _, _)
Keep(words, mask, i) ==
    IF i > Len(words) THEN <<>>
    ELSE (IF mask[i] THEN <<words[i]>> ELSE <<>>) \o Keep(words, mask, i + 1)

Descriptions ==
    {None} \cup
    {Str(joinWords(Keep(w, mask, 1))) : mask \in [1..5 -> BOOLEAN], w \in Sentences}

Extractors == {"cnm", "scripts"}

\* the two labels of every description, under either extractor (the two
\* functions read nothing but their argument)
Classified ==
    [ex \in Extractors |->
        [d \in Descriptions |->
            [equipment |-> extract_equipment(ex, d),
             material |-> extract_material(ex, d)]]]

InitClassify ==
    /\ extractor \in Extractors
    /\ description = None
    /\ calls = 0
    /\ parsed_equipment = NoLabelYet
    /\ parsed_material = NoLabelYet
    /\ JoinIdle
    /\ TierIdle
    /\ ExtractIdle
    /\ DownloadIdle

\* one line item is classified: parsed_equipment and parsed_material of its
\* description
ClassifyLine ==
    /\ calls < MaxCalls
    /\ \E d \in Descriptions :
          /\ description' = d
          /\ parsed_equipment' = Classified[extractor][d].equipment
          /\ parsed_material' = Classified[extractor][d].material
    /\ calls' = calls + 1
    /\ UNCHANGED <<extractor, joinVars, tierVars, extractVars, downloadVars>>

NextClassify == ClassifyLine

SpecClassify == InitClassify /\ [][NextClassify]_vars

----------------------------------------------------------------------------
(* Statements about the classifier (SpecClassify)                          *)

\* the rules of a table that match the upper-cased description
MatchingRules(rules, d) ==
    {k \in DOMAIN rules : search(rules[k].re, upper(d.s)) # 0}

\* the label rule k of a table gives the upper-cased description
RuleLabel(rules, k, d) ==
    ApplyHandler(rules[k], upper(d.s), search(rules[k].re, upper(d.s)))

\* first-match-wins for one table and one result
FirstRuleDecides(rules, d, result) ==
    \A i, j \in MatchingRules(rules, d) :
        (i < j /\ \A h \in MatchingRules(rules, d) : i <= h) =>
            result = RuleLabel(rules, i, d)

\* C10: first-match-wins over the declared order: when a description
\* matches rule i and a later rule j, and no rule before i, the label
\* returned is rule i's, for the equipment and for the material table, and
\* this is so whatever was classified before (at the first call and at
\* every later call).
C10_FirstMatchWins ==
    (calls > 0 /\ Truthy(description)) =>
        /\ FirstRuleDecides(EQUIPMENT_PATTERNS(extractor), description, parsed_equipment)
        /\ FirstRuleDecides(MATERIAL_PATTERNS(extractor), description, parsed_material)

\* C10 witness: after an earlier call, a description that matches three or
\* more equipment rules and two or more material rules with different
\* labels has been classified
C10_Witness ==
    /\ calls > 1
    /\ Truthy(description)
    /\ Cardinality(MatchingRules(EQUIPMENT_PATTERNS(extractor), description)) >= 3
    /\ \E i, j \in MatchingRules(MATERIAL_PATTERNS(extractor), description) :
          /\ i < j
          /\ RuleLabel(MATERIAL_PATTERNS(extractor), i, description)
                # RuleLabel(MATERIAL_PATTERNS(extractor), j, description)
          /\ parsed_material = RuleLabel(MATERIAL_PATTERNS(extractor), i, description)

\* the two documented descriptions, upper-cased:
\* "12YD ROLL OFF COMPACTOR" and "12 YARD ROLL OFF COMPACTOR"
CompactorExamples ==
    {upper(joinWords(<<<<"1", "2", "Y", "D">>, <<"R", "o", "l", "l">>, <<"O", "f", "f">>, <<"c", "o", "m", "p", "a", "c", "t", "o", "r">>>>)),
     upper(joinWords(<<<<"1", "2">>, <<"y", "a", "r", "d">>, <<"R", "o", "l", "l">>, <<"O", "f", "f">>, <<"c", "o", "m", "p", "a", "c", "t", "o", "r">>>>))}

\* the fixed texts of the rules whose pattern names the compactor
CompactorLabels == {"YD COMPACTOR", "COMPACTOR", " Yard Compactor", "Compactor"}

\* C11: the equipment label of "12YD ROLL OFF COMPACTOR" and of
\* "12 YARD ROLL OFF COMPACTOR" is the label of a compactor rule, not that of
\* the roll-off rule or of the yardage-only rule.
C11_CompactorExamples ==
    (calls > 0 /\ Truthy(description) /\ upper(description.s) \in CompactorExamples) =>
        /\ parsed_equipment.k = "str"
        /\ parsed_equipment.text \in CompactorLabels

\* the empty string as a returned value
EmptyLabel == Label(<<>>, "")

\* C12: neither classifier ever returns the empty string: a description
\* that no rule matches (or an empty one) gets a 'no classification' value
\* that is not '', and no rule's label is ''.
C12_NoMatchNotEmptyString ==
    calls > 0 =>
        /\ parsed_equipment # EmptyLabel
        /\ parsed_material # EmptyLabel

----------------------------------------------------------------------------
(* extract_line_items.py: documents, field parsing, extract_invoice_data   *)
(* and process_folder.  A JSON value is a cell: a text, a number, null     *)
(* (None) or Missing for a key the object does not have.  Raised is the    *)
(* outcome of an expression that raises an exception nothing catches.      *)

\* obj.get(key, ''): '' for a key that is not there, else its value
GetOrEmpty(v) == IF v.k = "missing" THEN Str(<<>>) ELSE v

\* sub in s, for two texts
contains(sub, s) ==
    \E i \in 1..(Len(s) - Len(sub) + 1) : SubSeq(s, i, i + Len(sub) - 1) = sub

\* str.strip(chars)
RECURSIVE StripChars(_, _)
StripChars(s, chars) ==
    IF s = <<>> THEN s
    ELSE IF Head(s) \in chars THEN StripChars(Tail(s), chars)
    ELSE IF s[Len(s)] \in chars THEN StripChars(SubSeq(s, 1, Len(s) - 1), chars)
    ELSE s

Longest(S) == CHOOSE x \in S : \A y \in S : y <= x

\* re.sub(pattern, '', s): every leftmost non-empty match is taken out (the
\* patterns below match greedily up to their longest end)
RECURSIVE subFrom(_, _, _)
subFrom(re, s, i) ==
    IF i > Len(s) THEN <<>>
    ELSE LET ends == Ends(re, s, i) \ {i}
         IN IF ends = {} THEN <<s[i]>> \o subFrom(re, s, i + 1)
            ELSE subFrom(re, s, Longest(ends))

sub(re, s) == subFrom(re, s, 1)

Sep == Alt(<<Lit(<<"/">>), Lit(<<"-">>)>>)
\* \d{1,2}[/\-]\d{1,2}[/\-]\d{2,4}
DatePattern ==
    Cat(<<Digit, Opt(Digit), Sep, Digit, Opt(Digit), Sep,
          Digit, Digit, Opt(Digit), Opt(Digit)>>)
\* \$?\d+\.\d{2}\b
DollarPattern == Cat(<<Opt(Lit(<<"$">>)), Plus(Digit), Lit(<<".">>), Digit, Digit, WordB>>)
\* \b\d+\.\d+\b
NumberPattern == Cat(<<WordB, Plus(Digit), Lit(<<".">>), Plus(Digit), WordB>>)
\* \s+\d+\s*$
TrailingNumber == Cat(<<Plus(Space), Plus(Digit), Star(Space), Eol>>)

clean_description(text) ==
    IF text = <<>> THEN <<>>
    ELSE StripChars(
            joinWords(split(
                sub(TrailingNumber, sub(NumberPattern,
                    sub(DollarPattern, sub(DatePattern, text)))))),
            {" ", "-"})

DigitValue(c) == CHOOSE n \in 0..9 : <<"0","1","2","3","4","5","6","7","8","9">>[n + 1] = c

RECURSIVE ToNat(_)
ToNat(cs) == IF cs = <<>> THEN 0 ELSE 10 * ToNat(SubSeq(cs, 1, Len(cs) - 1)) + DigitValue(cs[Len(cs)])

AllDigits(cs) == \A i \in DOMAIN cs : IsDigit(cs[i])

\* int(x or 0) for a JSON value: 0 for a missing, null, empty or zero value,
\* the number of a digit string with an optional sign; anything else raises
\* ValueError
IntOrZero(v) ==
    IF v.k \in {"missing", "none"} THEN Num(0)
    ELSE IF v.k = "num" THEN v
    ELSE LET t == strip(v.s)
             signed == t # <<>> /\ Head(t) \in {"-", "+"}
             ds == IF signed THEN Tail(t) ELSE t
         IN IF v.s = <<>> THEN Num(0)
            ELSE IF ds # <<>> /\ AllDigits(ds)
                 THEN Num(IF signed /\ Head(t) = "-" THEN -ToNat(ds) ELSE ToNat(ds))
            ELSE Raised

\* float(t) in hundredths, for a text: optional sign, digits with at most
\* one point and at least one digit (blanks around it are ignored); Raised
\* stands for ValueError.  Digits after the second decimal are dropped.
PyFloat(cs) ==
    LET t == strip(cs)
        signed == t # <<>> /\ Head(t) \in {"-", "+"}
        body == IF signed THEN Tail(t) ELSE t
        points == {i \in DOMAIN body : body[i] = "."}
        whole == IF points = {} THEN body ELSE SubSeq(body, 1, Longest(points) - 1)
        frac == IF points = {} THEN <<>> ELSE SubSeq(body, Longest(points) + 1, Len(body))
        cents == ToNat(SubSeq(frac \o <<"0", "0">>, 1, 2))
        ok == /\ Cardinality(points) <= 1
              /\ AllDigits(whole) /\ AllDigits(frac)
              /\ whole \o frac # <<>>
    IN IF ~ok THEN Raised
       ELSE LET n == 100 * ToNat(whole) + cents
            IN Num(IF signed /\ Head(t) = "-" THEN -n ELSE n)

\* re.sub(r'[^\d.\-]', '', mention)
MoneyChars(cs) == SelectSeq(cs, LAMBDA c : IsDigit(c) \/ c \in {".", "-"})

\* parse_money_value(prop): units + nanos / 1e9 of a typed money value,
\* else the number read from the mention text, None when that fails
parse_money_value(prop) ==
    LET nv == prop.normalizedValue
    IN IF nv.k = "null" THEN Raised
       ELSE IF nv.k = "money"
       THEN LET units == IntOrZero(nv.units)
                nanos == IntOrZero(nv.nanos)
            IN IF units = Raised \/ nanos = Raised THEN Raised
               ELSE Num(100 * units.n + (nanos.n \div 10000000))
       ELSE LET mention == GetOrEmpty(prop.mentionText)
            IN IF mention.k # "str" THEN None
               ELSE LET f == PyFloat(MoneyChars(mention.s))
                    IN IF f = Raised THEN None ELSE f

\* the properties of a line item, before any is read (lines 167-173)
NoProps ==
    [raised |-> FALSE, description |-> None, amount |-> None, quantity |-> None,
     unit_price |-> None, service_date |-> None]

\* mention.replace(',', '')
NoCommas(cs) == SelectSeq(cs, LAMBDA c : c # ",")

\* one pass of "for prop in entity.get('properties', [])"
ReadProp(props, prop) ==
    LET ptype == GetOrEmpty(prop.type)
        prop_type == lower(ptype.s)
        mention == GetOrEmpty(prop.mentionText)
        nv == prop.normalizedValue
        fail == [props EXCEPT !.raised = TRUE]
    IN IF ptype.k # "str" THEN fail
       ELSE IF contains(<<"d", "e", "s", "c", "r", "i", "p", "t", "i", "o", "n">>, prop_type)
       THEN (IF mention.k # "str" THEN fail
             ELSE [props EXCEPT !.description = Str(strip(mention.s))])
       ELSE IF prop_type = <<"l", "i", "n", "e", "_", "i", "t", "e", "m", "/", "a", "m", "o", "u", "n", "t">>
       THEN (LET v == parse_money_value(prop)
             IN IF v = Raised THEN fail ELSE [props EXCEPT !.amount = v])
       ELSE IF contains(<<"q", "u", "a", "n", "t", "i", "t", "y">>, prop_type)
       THEN (IF nv.k = "null" THEN fail
             ELSE IF nv.k = "float" THEN [props EXCEPT !.quantity = nv.floatValue]
             ELSE IF mention.k # "str" THEN props
             ELSE LET q == PyFloat(NoCommas(mention.s))
                  IN IF q = Raised THEN props ELSE [props EXCEPT !.quantity = q])
       ELSE IF contains(<<"u", "n", "i", "t", "_", "p", "r", "i", "c", "e">>, prop_type)
       THEN (LET v == parse_money_value(prop)
             IN IF v = Raised THEN fail ELSE [props EXCEPT !.unit_price = v])
       ELSE IF contains(<<"d", "a", "t", "e">>, prop_type)
       THEN (IF mention.k # "str" THEN fail
             ELSE [props EXCEPT !.service_date = Str(strip(mention.s))])
       ELSE props

RECURSIVE ReadProps(_, _, _)
ReadProps(props, properties, i) ==
    IF i > Len(properties) \/ props.raised THEN props
    ELSE ReadProps(ReadProp(props, properties[i]), properties, i + 1)

\* a or b for two results of extract_*_from_description
OrLabel(a, b) == IF a = NoneLabel THEN b ELSE a

\* the item appended for a line item whose properties were read, none when
\* it has neither a description nor an amount (lines 198-213)
LineItem(full_text, props, final_desc) ==
    IF final_desc # <<>> \/ Truthy(props.amount)
    THEN <<[description |-> upper(final_desc),
            amount |-> props.amount,
            quantity |-> props.quantity,
            unit_price |-> props.unit_price,
            service_date |-> props.service_date,
            full_text |-> full_text,
            parsed_equipment |->
                OrLabel(extract_equipment("cnm", Str(final_desc)),
                        extract_equipment("cnm", Str(full_text))),
            parsed_material |->
                OrLabel(extract_material("cnm", Str(final_desc)),
                        extract_material("cnm", Str(full_text)))]>>
    ELSE <<>>

\* the body of "if entity.get('type') == 'line_item'": the items to append
\* (none or one), or raised; full_text, the properties read and final_desc
\* are computed once each
LineItemOf(entity) ==
    CHOOSE r \in UNION {
        {IF props.raised THEN [raised |-> TRUE, items |-> <<>>]
         ELSE [raised |-> FALSE, items |-> LineItem(full_text, props, final_desc)] :
            final_desc \in {IF Truthy(props.description) THEN props.description.s
                            ELSE clean_description(full_text)}} :
        full_text \in {strip(GetOrEmpty(entity.mentionText).s)},
        props \in {ReadProps(NoProps, entity.properties, 1)}} : TRUE

\* the invoice before any entity is read (lines 133-142)
EmptyInvoice ==
    [account_number |-> None, invoice_number |-> None, invoice_date |-> None,
     vendor_name |-> None, location_code |-> None, service_address |-> None,
     total_amount |-> None, line_items |-> <<>>]

TotalTypes == {<<"t", "o", "t", "a", "l", "_", "a", "m", "o", "u", "n", "t">>, <<"a", "m", "o", "u", "n", "t", "_", "d", "u", "e">>, <<"t", "o", "t", "a", "l", "_", "d", "u", "e">>}

\* one pass of "Extract header entities"; Raised when the entity is not an
\* object or its type or mentionText is not a text
ReadHeader(invoice, entity) ==
    LET etype == GetOrEmpty(entity.type)
        entity_type == lower(etype.s)
        m == GetOrEmpty(entity.mentionText)
        mention == Str(strip(m.s))
        has(w) == contains(w, entity_type)
    IN IF ~entity.obj \/ etype.k # "str" \/ m.k # "str" THEN Raised
       ELSE IF has(<<"a", "c", "c", "o", "u", "n", "t">>) /\ has(<<"n", "u", "m", "b", "e", "r">>)
       THEN [invoice EXCEPT !.account_number = mention]
       ELSE IF has(<<"i", "n", "v", "o", "i", "c", "e">>) /\ (has(<<"n", "u", "m", "b", "e", "r">>) \/ has(<<"i", "d">>))
       THEN [invoice EXCEPT !.invoice_number = mention]
       ELSE IF has(<<"i", "n", "v", "o", "i", "c", "e">>) /\ has(<<"d", "a", "t", "e">>)
       THEN [invoice EXCEPT !.invoice_date = mention]
       ELSE IF has(<<"s", "u", "p", "p", "l", "i", "e", "r">>) \/ has(<<"v", "e", "n", "d", "o", "r">>)
       THEN [invoice EXCEPT !.vendor_name = mention]
       ELSE IF has(<<"l", "o", "c", "a", "t", "i", "o", "n">>)
       THEN [invoice EXCEPT !.location_code = mention]
       ELSE IF has(<<"s", "e", "r", "v", "i", "c", "e">>) /\ has(<<"a", "d", "d", "r", "e", "s", "s">>)
       THEN [invoice EXCEPT !.service_address = mention]
       ELSE IF entity_type \in TotalTypes
       THEN (LET v == parse_money_value(entity)
             IN IF v = Raised THEN Raised ELSE [invoice EXCEPT !.total_amount = v])
       ELSE invoice

RECURSIVE ReadHeaders(_, _, _)
ReadHeaders(invoice, entities, i) ==
    IF i > Len(entities) \/ invoice = Raised THEN invoice
    ELSE ReadHeaders(ReadHeader(invoice, entities[i]), entities, i + 1)

\* "Extract line items"
RECURSIVE ReadLineItems(_, _, _)
ReadLineItems(invoice, entities, i) ==
    IF i > Len(entities) \/ invoice = Raised THEN invoice
    ELSE IF entities[i].type # Str(<<"l", "i", "n", "e", "_", "i", "t", "e", "m">>)
    THEN ReadLineItems(invoice, entities, i + 1)
    ELSE CHOOSE out \in
             {IF r.raised THEN Raised
              ELSE ReadLineItems(
                      [invoice EXCEPT !.line_items = invoice.line_items \o r.items],
                      entities, i + 1) : r \in {LineItemOf(entities[i])}} : TRUE

\* extract_entities(data)
extract_entities(doc) ==
    IF doc.json \in {"entities", "document"} THEN doc.entities ELSE <<>>

ParseError == "JSON parse error"

\* the invoice read from the entities of a document, or Raised: the header
\* entities first, then the line items
ReadInvoice(entities) ==
    CHOOSE invoice \in
        {ReadLineItems(header, entities, 1) :
            header \in {ReadHeaders(EmptyInvoice, entities, 1)}} : TRUE

\* a variant that reports a document without line items as an error
extract_invoice_dataOrError(doc) ==
    IF doc.json = "unparseable"
    THEN [raised |-> FALSE, invoice |-> None, error |-> ParseError]
    ELSE CHOOSE r \in
             {IF invoice = Raised
              THEN [raised |-> TRUE, invoice |-> None, error |-> ""]
              ELSE IF invoice.line_items = <<>>
              THEN [raised |-> FALSE, invoice |-> None, error |-> "no line items"]
              ELSE [raised |-> FALSE, invoice |-> invoice, error |-> ""] :
                 invoice \in {ReadInvoice(extract_entities(doc))}} : TRUE

\* extract_invoice_data(json_path): (invoice, None), (None, error), or an
\* exception that leaves the function
extract_invoice_data(doc) ==
    IF doc.json = "unparseable"
    THEN [raised |-> FALSE, invoice |-> None, error |-> ParseError]
    ELSE CHOOSE r \in
             {IF invoice = Raised
              THEN [raised |-> TRUE, invoice |-> None, error |-> ""]
              ELSE [raised |-> FALSE, invoice |-> invoice, error |-> ""] :
                 invoice \in {ReadInvoice(extract_entities(doc))}} : TRUE

----------------------------------------------------------------------------
(* Documents of a folder.                                                  *)

\* the documents of the model, by name; the entities and values they are
\* built from are those of the Document AI JSON the extractor reads
Doc(name) ==
    LET NoValue == [k |-> "missing", units |-> Missing, nanos |-> Missing, floatValue |-> Missing]
        MoneyValue(units, nanos) ==
            [k |-> "money", units |-> units, nanos |-> nanos, floatValue |-> Missing]
        FloatValue(v) == [k |-> "float", units |-> Missing, nanos |-> Missing, floatValue |-> v]
        Prop(type, mention, nv) == [type |-> type, mentionText |-> mention, normalizedValue |-> nv]
        Entity(type, mention, nv, properties) ==
            [obj |-> TRUE, type |-> type, mentionText |-> mention, normalizedValue |-> nv,
             properties |-> properties]
        \* an element of "entities" that is not an object (null)
        NullEntity ==
            [obj |-> FALSE, type |-> Missing, mentionText |-> Missing, normalizedValue |-> NoValue,
             properties |-> <<>>]
        Supplier == Entity(Str(<<"s", "u", "p", "p", "l", "i", "e", "r", "_", "n", "a", "m", "e">>), Str(<<" ", "A", "c", "m", "e", " ", "W", "a", "s", "t", "e", " ">>), NoValue, <<>>)
        InvoiceId == Entity(Str(<<"i", "n", "v", "o", "i", "c", "e", "_", "i", "d">>), Str(<<"I", "N", "V", "-", "1">>), NoValue, <<>>)
        TotalDue == Entity(Str(<<"T", "o", "t", "a", "l", "_", "D", "u", "e">>), Str(<<"$", "1", ",", "6", "2", "2", ".", "0", "0">>), NoValue, <<>>)
        \* a file that json.load cannot read
        DocUnparseable == [json |-> "unparseable", entities |-> <<>>]
        \* a JSON value with no entities (a list, or an object without the key)
        DocNoEntitiesKey == [json |-> "other", entities |-> <<>>]
        \* {"entities": []}
        DocEmptyEntities == [json |-> "entities", entities |-> <<>>]
        \* {"document": {"entities": [...]}} with header entities only
        DocHeaderOnly == [json |-> "document", entities |-> <<Supplier, InvoiceId, TotalDue>>]
        \* a line item with typed values
        DocTyped ==
            [json |-> "entities",
             entities |-> <<Supplier,
                Entity(Str(<<"l", "i", "n", "e", "_", "i", "t", "e", "m">>), Str(<<"1", "2", " ", "y", "a", "r", "d", " ", "c", "o", "m", "p", "a", "c", "t", "o", "r", " ", "0", "1", "/", "0", "2", "/", "2", "0", "2", "4", " ", "$", "8", "1", "1", ".", "0", "0">>), NoValue,
                       <<Prop(Str(<<"l", "i", "n", "e", "_", "i", "t", "e", "m", "/", "d", "e", "s", "c", "r", "i", "p", "t", "i", "o", "n">>), Str(<<"1", "2", " ", "Y", "a", "r", "d", " ", "C", "o", "m", "p", "a", "c", "t", "o", "r", " ">>), NoValue),
                         Prop(Str(<<"l", "i", "n", "e", "_", "i", "t", "e", "m", "/", "a", "m", "o", "u", "n", "t">>), Str(<<"$", "8", "1", "1", ".", "0", "0">>),
                              MoneyValue(Str(<<"8", "1", "1">>), Num(500000000))),
                         Prop(Str(<<"l", "i", "n", "e", "_", "i", "t", "e", "m", "/", "q", "u", "a", "n", "t", "i", "t", "y">>), Str(<<"2">>), FloatValue(Num(200))),
                         Prop(Str(<<"l", "i", "n", "e", "_", "i", "t", "e", "m", "/", "s", "e", "r", "v", "i", "c", "e", "_", "d", "a", "t", "e">>), Str(<<"0", "1", "/", "0", "2", "/", "2", "0", "2", "4">>), NoValue)>>)>>]
        \* a line item with mention texts only and no description property
        DocMention ==
            [json |-> "entities",
             entities |-> <<
                Entity(Str(<<"l", "i", "n", "e", "_", "i", "t", "e", "m">>), Str(<<"C", "a", "r", "d", "b", "o", "a", "r", "d", " ", "r", "e", "c", "y", "c", "l", "i", "n", "g", " ", "-", " ", "8", "1", "1", ".", "0", "0", " ", "3">>), NoValue,
                       <<Prop(Str(<<"l", "i", "n", "e", "_", "i", "t", "e", "m", "/", "a", "m", "o", "u", "n", "t">>), Str(<<"$", "8", "1", "1", ".", "0", "0">>), NoValue),
                         Prop(Str(<<"l", "i", "n", "e", "_", "i", "t", "e", "m", "/", "q", "u", "a", "n", "t", "i", "t", "y">>), Str(<<"1", ",", "0", "0", "0">>), NoValue),
                         Prop(Str(<<"l", "i", "n", "e", "_", "i", "t", "e", "m", "/", "u", "n", "i", "t", "_", "p", "r", "i", "c", "e">>), Str(<<"U", "S", "D", " ", "0", ".", "8", "1">>), NoValue)>>)>>]
        \* a line item whose money string, quantity and date cannot be read
        DocBadStrings ==
            [json |-> "entities",
             entities |-> <<Supplier,
                Entity(Str(<<"l", "i", "n", "e", "_", "i", "t", "e", "m">>), Str(<<"f", "e", "e">>), NoValue,
                       <<Prop(Str(<<"l", "i", "n", "e", "_", "i", "t", "e", "m", "/", "d", "e", "s", "c", "r", "i", "p", "t", "i", "o", "n">>), Str(<<"f", "e", "e">>), NoValue),
                         Prop(Str(<<"l", "i", "n", "e", "_", "i", "t", "e", "m", "/", "a", "m", "o", "u", "n", "t">>), Str(<<"N", "/", "A">>), NoValue),
                         Prop(Str(<<"l", "i", "n", "e", "_", "i", "t", "e", "m", "/", "q", "u", "a", "n", "t", "i", "t", "y">>), Str(<<"t", "w", "o">>), NoValue),
                         Prop(Str(<<"l", "i", "n", "e", "_", "i", "t", "e", "m", "/", "u", "n", "i", "t", "_", "p", "r", "i", "c", "e">>), None, NoValue),
                         Prop(Str(<<"l", "i", "n", "e", "_", "i", "t", "e", "m", "/", "d", "a", "t", "e">>), Str(<<"1", "3", "/", "4", "5">>), NoValue)>>)>>]
        \* a line item whose typed money values cannot be converted; the
        \* mention text of the second cannot be read either
        DocBadUnits ==
            [json |-> "entities",
             entities |-> <<
                Entity(Str(<<"l", "i", "n", "e", "_", "i", "t", "e", "m">>), Str(<<"t", "r", "a", "s", "h">>), NoValue,
                       <<Prop(Str(<<"l", "i", "n", "e", "_", "i", "t", "e", "m", "/", "a", "m", "o", "u", "n", "t">>), Str(<<"8", ".", "5", "0">>),
                              MoneyValue(Str(<<"8", ".", "5">>), Missing)),
                         Prop(Str(<<"l", "i", "n", "e", "_", "i", "t", "e", "m", "/", "u", "n", "i", "t", "_", "p", "r", "i", "c", "e">>), Str(<<"N", "/", "A">>),
                              MoneyValue(Str(<<"8", ".", "5">>), Missing))>>)>>]
        \* an entity list that holds a null
        DocNullEntity == [json |-> "entities", entities |-> <<InvoiceId, NullEntity>>]
        \* a line-item entity without text, description or amount
        DocBlankLine ==
            [json |-> "entities",
             entities |-> <<Entity(Str(<<"l", "i", "n", "e", "_", "i", "t", "e", "m">>), Str(<<" ", " ">>), NoValue,
                                   <<Prop(Str(<<"l", "i", "n", "e", "_", "i", "t", "e", "m", "/", "a", "m", "o", "u", "n", "t">>), Str(<<"0", ".", "0", "0">>), NoValue)>>)>>]
        \* two entities that both give the vendor name, and a line item
        DocTwoVendors ==
            [json |-> "entities",
             entities |-> <<Supplier,
                Entity(Str(<<"v", "e", "n", "d", "o", "r", "_", "n", "a", "m", "e">>), Str(<<"B", "e", "t", "a", " ", "H", "a", "u", "l", "i", "n", "g">>), NoValue, <<>>),
                Entity(Str(<<"l", "i", "n", "e", "_", "i", "t", "e", "m">>), Str(<<"t", "r", "a", "s", "h">>), NoValue, <<>>)>>]
    IN CASE name = "Unparseable" -> DocUnparseable
         [] name = "NoEntitiesKey" -> DocNoEntitiesKey
         [] name = "EmptyEntities" -> DocEmptyEntities
         [] name = "HeaderOnly" -> DocHeaderOnly
         [] name = "Typed" -> DocTyped
         [] name = "Mention" -> DocMention
         [] name = "BadStrings" -> DocBadStrings
         [] name = "BadUnits" -> DocBadUnits
         [] name = "NullEntity" -> DocNullEntity
         [] name = "BlankLine" -> DocBlankLine
         [] name = "TwoVendors" -> DocTwoVendors

Docs ==
    {Doc(name) : name \in {"Unparseable", "NoEntitiesKey", "EmptyEntities", "HeaderOnly",
                                 "Typed", "Mention", "BadStrings", "BadUnits", "NullEntity", "BlankLine",
                                 "TwoVendors"}}

\* vendor_filter: not given, or a name
VendorFilters == {None, Str(<<"A", "C", "M", "E">>)}

\* what extract_invoice_data gives for every document (the function reads
\* nothing but the file)
Extracted == [doc \in Docs |-> extract_invoice_data(doc)]

----------------------------------------------------------------------------
(* process_folder                                                          *)

InitExtract ==
    /\ vendor_filter \in VendorFilters
    /\ \E n \in 0..MaxFiles : json_files \in [1..n -> Docs]
    /\ file_i = 0
    /\ all_rows = <<>>
    /\ summary = <<>>
    /\ errors = <<>>
    /\ folder_pc = "loop"
    /\ JoinIdle
    /\ TierIdle
    /\ ClassifyIdle
    /\ DownloadIdle

\* the vendor filter lets the invoice through
PassesFilter(filter, invoice) ==
    \/ ~Truthy(filter)
    \/ contains(lower(filter.s),
                lower(IF Truthy(invoice.vendor_name) THEN invoice.vendor_name.s ELSE <<>>))

\* the detail row of one line item (lines 256-272); json_md5 is the name of
\* the file, here its position in the folder
DetailRow(path, invoice, item) ==
    [json_md5 |-> path,
     vendor_name |-> invoice.vendor_name,
     account_number |-> invoice.account_number,
     invoice_number |-> invoice.invoice_number,
     invoice_date |-> invoice.invoice_date,
     location_code |-> invoice.location_code,
     service_address |-> invoice.service_address,
     line_description |-> item.description,
     line_amount |-> item.amount,
     line_quantity |-> item.quantity,
     line_unit_price |-> item.unit_price,
     service_date |-> item.service_date,
     parsed_equipment |-> item.parsed_equipment,
     parsed_material |-> item.parsed_material,
     full_text |-> item.full_text]

\* summary[key]['count'] += 1 and, for an amount that is not zero,
\* summary[key]['total_amount'] += amount
UpdateSummary(sm, invoice, item) ==
    LET hit == {k \in DOMAIN sm : /\ sm[k].vendor = invoice.vendor_name
                                  /\ sm[k].description = item.description}
        add == IF Truthy(item.amount) THEN item.amount.n ELSE 0
    IN IF hit = {}
       THEN Append(sm, [vendor |-> invoice.vendor_name, description |-> item.description,
                        count |-> 1, total_amount |-> add])
       ELSE [k \in DOMAIN sm |->
                IF k \in hit
                THEN [sm[k] EXCEPT !.count = @ + 1, !.total_amount = @ + add]
                ELSE sm[k]]

RECURSIVE SummaryOf(_, _, _, _)
SummaryOf(sm, invoice, items, i) ==
    IF i > Len(items) THEN sm
    ELSE SummaryOf(UpdateSummary(sm, invoice, items[i]), invoice, items, i + 1)

\* one pass of "for i, json_path in enumerate(json_files)"
ProcessFile ==
    /\ folder_pc = "loop"
    /\ file_i < Len(json_files)
    /\ \E path \in {file_i + 1} : \E r \in {Extracted[json_files[path]]} :
          IF r.raised
          THEN /\ folder_pc' = "raised"
               /\ UNCHANGED <<all_rows, summary, errors>>
          ELSE IF r.error # ""
          THEN /\ errors' = Append(errors, [path |-> path, cause |-> r.error])
               /\ UNCHANGED <<all_rows, summary, folder_pc>>
          ELSE IF ~PassesFilter(vendor_filter, r.invoice)
          THEN UNCHANGED <<all_rows, summary, errors, folder_pc>>
          ELSE /\ all_rows' = all_rows \o
                     [k \in DOMAIN r.invoice.line_items |->
                         DetailRow(path, r.invoice, r.invoice.line_items[k])]
               /\ summary' = SummaryOf(summary, r.invoice, r.invoice.line_items, 1)
               /\ UNCHANGED <<errors, folder_pc>>
    /\ file_i' = file_i + 1
    /\ UNCHANGED <<vendor_filter, json_files>>
    /\ UNCHANGED <<joinVars, tierVars, classifyVars, downloadVars>>

\* return all_rows, summary, errors
ReturnResults ==
    /\ folder_pc = "loop"
    /\ file_i = Len(json_files)
    /\ folder_pc' = "returned"
    /\ UNCHANGED <<vendor_filter, json_files, file_i, all_rows, summary, errors>>
    /\ UNCHANGED <<joinVars, tierVars, classifyVars, downloadVars>>

NextExtract == ProcessFile \/ ReturnResults

SpecExtract == InitExtract /\ [][NextExtract]_vars

----------------------------------------------------------------------------
(* Statements about process_folder (SpecExtract)                           *)

\* the entity graph is structurally invalid: an element of "entities" is
\* not an object, or its type or text is not a text
StructurallyInvalid(doc) ==
    \E i \in DOMAIN doc.entities :
        LET e == doc.entities[i]
        IN ~e.obj \/ GetOrEmpty(e.type).k # "str" \/ GetOrEmpty(e.mentionText).k # "str"

\* a malformed document: unparseable JSON or an invalid entity graph
Malformed(doc) == doc.json = "unparseable" \/ StructurallyInvalid(doc)

\* a property of the document carries a typed money value whose units are
\* not a whole number
HasBadMoneyValue(doc) ==
    \E i \in DOMAIN doc.entities : \E j \in DOMAIN doc.entities[i].properties :
        LET nv == doc.entities[i].properties[j].normalizedValue
        IN nv.k = "money" /\ IntOrZero(nv.units) = Raised

\* the errors collected for the document at a position of the folder
ErrorsOf(path) == {k \in DOMAIN errors : errors[k].path = path}

\* the detail rows of the document at a position of the folder
RowsOf(path) == SelectSeq(all_rows, LAMBDA row : row.json_md5 = path)

\* C13: a malformed document never aborts the batch: in a folder of
\* well-formed and malformed documents (field values all convertible)
\* process_folder does not end in an exception, and once it has returned
\* there is exactly one collected error for every malformed document and,
\* with no vendor filter, the line items of every well-formed one are rows.
C13_MalformedNeverAborts ==
    (\A i \in DOMAIN json_files : ~HasBadMoneyValue(json_files[i])) =>
        /\ folder_pc # "raised"
        /\ folder_pc = "returned" =>
              \A i \in DOMAIN json_files :
                  IF Malformed(json_files[i])
                  THEN Cardinality(ErrorsOf(i)) = 1
                  ELSE vendor_filter = None =>
                          Len(RowsOf(i)) = Len(Extracted[json_files[i]].invoice.line_items)

\* C14: a field value that cannot be converted leaves that field empty and
\* nothing else: in a folder without malformed documents process_folder
\* does not end in an exception, and the row of the line item with the
\* unreadable money string and quantity has no amount and no quantity but
\* keeps its description.
C14_BadFieldBecomesAbsent ==
    (\A i \in DOMAIN json_files : ~Malformed(json_files[i])) =>
        /\ folder_pc # "raised"
        /\ \A k \in DOMAIN all_rows :
              json_files[all_rows[k].json_md5] = Doc("BadStrings") =>
                  /\ all_rows[k].line_amount = None
                  /\ all_rows[k].line_quantity = None
                  /\ all_rows[k].line_unit_price = None
                  /\ all_rows[k].line_description = <<"F", "E", "E">>

\* a well-formed document without line-item entities
NoLineItemEntities(doc) ==
    /\ doc.json # "unparseable"
    /\ ~StructurallyInvalid(doc)
    /\ \A i \in DOMAIN extract_entities(doc) :
          extract_entities(doc)[i].type # Str(<<"l", "i", "n", "e", "_", "i", "t", "e", "m">>)

\* C15: a well-formed document without line-item entities gives an invoice
\* with an empty line-item sequence and no error: the call neither raises
\* nor returns an error, and the folder gets no row and no collected error
\* from it.
C15_NoLineItemsNoError ==
    \A i \in 1..file_i :
        NoLineItemEntities(json_files[i]) =>
            /\ ~Extracted[json_files[i]].raised
            /\ Extracted[json_files[i]].error = ""
            /\ Extracted[json_files[i]].invoice # None
            /\ Extracted[json_files[i]].invoice.line_items = <<>>
            /\ ErrorsOf(i) = {}
            /\ RowsOf(i) = <<>>
            /\ (i = file_i => folder_pc # "raised")

\* C15 witness: a folder has been gone through that held a document with
\* header entities only next to one that gave rows and one that gave an error
C15_Witness ==
    /\ folder_pc = "returned"
    /\ \E i \in DOMAIN json_files :
          /\ json_files[i] = Doc("HeaderOnly")
          /\ Extracted[json_files[i]].invoice.vendor_name # None
    /\ all_rows # <<>>
    /\ errors # <<>>

----------------------------------------------------------------------------
(* Statements about rows without a join key                                *)

\* invoice lines whose join-key cell is empty
NullKeyLines == {line \in DOMAIN invoice_csv : isna(KeyCell(invoice_csv[line]))}

\* C16: a row with an empty join key, of either file, is in no matched
\* record, and when the run is over every invoice line with an empty key is
\* in the unmatched output with the note that its key is missing.
C16_NullKeysExcludedAndRetained ==
    /\ \A i \in DOMAIN joined_rows :
          /\ ~isna(KeyCell(invoice_csv[joined_rows[i].line]))
          /\ ~isna(KeyCell(billing_csv[joined_rows[i].charge]))
    /\ pc = "done" =>
          \A line \in NullKeyLines :
              \E i \in DOMAIN unmatched_rows :
                  /\ unmatched_rows[i].line = line
                  /\ unmatched_rows[i].note = NoteNoKey

----------------------------------------------------------------------------
(* join_invoice_billing on files with other headers: either file may lack  *)
(* a key, amount or description column, and may carry both the MD5 and the *)
(* invoice number.                                                         *)

InvKeyColumns == {{}, {"json_md5"}, {"invoice_number"}, {"json_md5", "invoice_number"}}
BillKeyColumns ==
    {{}, {"invoice_md5"}, {"billing_reference"}, {"invoice_md5", "invoice_number"}}

InvHeaders ==
    {k \cup d : k \in InvKeyColumns,
                d \in {{"line_amount", "line_description"}, {"line_amount"},
                       {"line_description"}}}
BillHeaders ==
    {k \cup d : k \in BillKeyColumns,
                d \in {{"cost", "charge_description"}, {"cost"}, {"charge_description"},
                       {"price", "charge_description"},
                       {"cost", "price", "charge_description"}}}

\* a cell of a column, absent when the file has none of the column's names
CellOf(cols, names, cell) == IF Has(cols, names) THEN cell ELSE Missing

\* the two invoice rows of these files: the first shares its MD5 with the
\* charges and not its invoice number, the second the other way round
HeaderInvRows(cols) ==
    {[md5 |-> CellOf(cols, {"json_md5", "invoice_md5"},
                     IF v = 1 THEN Str(<<"a", "a">>) ELSE Str(<<"b", "b">>)),
      invoice_number |-> CellOf(cols, {"invoice_number"},
                                IF v = 1 THEN Str(<<"y">>) ELSE Str(<<"z", "z">>)),
      line_amount |-> CellOf(cols, {"line_amount", "amount"}, Num(81100)),
      line_description |-> CellOf(cols, {"line_description", "description"},
                                  Str(<<"a", " ", "b", " ", " ", "c", " ", "d", " ", "e", " ">>))] : v \in {1, 2}}

\* the charges of these files: cost 811.00 and price 811.50; a file with
\* both columns also has charges with an empty cost cell and with cost 0.00
HeaderBillRows(cols) ==
    {[md5 |-> CellOf(cols, {"invoice_md5"}, Str(<<"a", "a">>)),
      invoice_number |-> CellOf(cols, {"invoice_number", "billing_reference"}, Str(<<"z", "z">>)),
      cost |-> CellOf(cols, {"cost"}, cost),
      price |-> CellOf(cols, {"price"}, Num(81150)),
      charge_description |-> CellOf(cols, {"charge_description"}, Str(<<"A", " ", "B", " ", "C", " ", "D", " ", "E">>))] :
        cost \in IF {"cost", "price"} \subseteq cols THEN {NaN, Num(0), Num(81100)}
                 ELSE {Num(81100)}}

InitHeaders ==
    /\ script \in {"root", "cnm"}
    /\ inv_columns \in InvHeaders
    /\ bill_columns \in BillHeaders
    /\ \E m \in 0..MaxRows : \E n \in 0..(MaxRows - m) :
          /\ invoice_csv \in [1..m -> HeaderInvRows(inv_columns)]
          /\ billing_csv \in [1..n -> HeaderBillRows(bill_columns)]
    /\ mapping = <<>>
    /\ inv_df = <<>>
    /\ bill_df = <<>>
    /\ pc = "start"
    /\ common_md5s = {}
    /\ pending = {}
    /\ queue = <<>>
    /\ joined_rows = <<>>
    /\ unmatched_rows = <<>>
    /\ joined_file = NoFile
    /\ unmatched_file = NoFile
    /\ TierIdle
    /\ ClassifyIdle
    /\ ExtractIdle
    /\ DownloadIdle

SpecHeaders == InitHeaders /\ [][Next]_vars

----------------------------------------------------------------------------
(* Statements about the headers of the two files                           *)

\* both files have an invoice-number column, billing_reference counted as
\* invoice_number
BothExposeNumber ==
    /\ "invoice_number" \in inv_columns
    /\ Has(bill_columns, {"invoice_number", "billing_reference"})

\* both files have a content-hash column
BothExposeHash ==
    /\ Has(inv_columns, {"json_md5", "invoice_md5"})
    /\ Has(bill_columns, {"json_md5", "invoice_md5"})

\* the texts of a key column of a file
TextsOf(csv, field) == {csv[i][field].s : i \in DOMAIN csv}

\* the keys the two files share under the resolution order: invoice
\* numbers when both files have them, else the hashes
ResolvedCommon ==
    IF BothExposeNumber
    THEN TextsOf(invoice_csv, "invoice_number") \cap TextsOf(billing_csv, "invoice_number")
    ELSE TextsOf(invoice_csv, "md5") \cap TextsOf(billing_csv, "md5")

\* the run ended while loading: the ERROR line and return of "root", the
\* KeyError of "cnm"
LoadFailed == pc = "error" \/ (script = "cnm" /\ pc = "raised")

\* C17: when both files have an invoice-number column (billing_reference
\* counted as one) or, failing that, both have a hash column, the run gets
\* past loading and the keys it groups by are the invoice numbers the files
\* share in the first case and the hashes they share in the second.
C17_JoinKeyResolution ==
    ((BothExposeNumber \/ BothExposeHash) /\ pc # "start") =>
        /\ ~LoadFailed
        /\ pc # "loaded" => common_md5s = ResolvedCommon

\* a column the join needs is absent from one of the files
RequiredColumnMissing ==
    \/ ~(BothExposeNumber \/ BothExposeHash)
    \/ ~Has(inv_columns, {"line_amount", "amount"})
    \/ ~Has(bill_columns, {"cost", "price"})
    \/ ~Has(inv_columns, {"line_description", "description"})
    \/ ~Has(bill_columns, {"charge_description"})

\* C18: when a key, amount or description column is absent from either
\* file, the run ends at loading and no matched or unmatched record is
\* produced or written.
C18_MissingColumnFatal ==
    (RequiredColumnMissing /\ pc # "start") =>
        /\ LoadFailed
        /\ joined_rows = <<>> /\ unmatched_rows = <<>>
        /\ joined_file = NoFile /\ unmatched_file = NoFile

----------------------------------------------------------------------------
(* Statements about the independence of the key groups                     *)

\* the elements of a set of row labels, in file order
RECURSIVE Ascending(_)
Ascending(S) ==
    IF S = {} THEN <<>>
    ELSE LET m == CHOOSE x \in S : \A y \in S : x <= y
         IN <<m>> \o Ascending(S \ {m})

\* labels of the invoice lines of the group of an invoice line
GroupLines(line) ==
    {l \in DOMAIN invoice_csv : /\ Grouped(invoice_csv[l]) = Grouped(invoice_csv[line])
                                /\ KeyOf(invoice_csv[l]) = KeyOf(invoice_csv[line])}

\* a cell as to_csv writes it: None and NaN are both written empty
Written(cell) == IF cell.k \in {"none", "nan"} THEN NaN ELSE cell

\* what identifies an output record of an invoice line: the list it is in,
\* the charge it pairs the line with, score, note and the two amounts
Record(kind, charge, score, note, invoice_amount, billing_amount) ==
    [kind |-> kind, charge |-> charge, score |-> score, note |-> note,
     invoice_amount |-> Written(invoice_amount),
     billing_amount |-> Written(billing_amount)]

\* the output records of an invoice line in this run
RecordsOf(line) ==
    {Record("joined", joined_rows[i].charge, joined_rows[i].score, "",
            joined_rows[i].invoice_amount, joined_rows[i].billing_amount) :
        i \in {h \in DOMAIN joined_rows : joined_rows[h].line = line}}
    \cup
    {Record("unmatched", 0, unmatched_rows[i].match_score, unmatched_rows[i].note,
            unmatched_rows[i].invoice_amount, None) :
        i \in {h \in DOMAIN unmatched_rows : unmatched_rows[h].line = line}}

\* the output records of an invoice line in the run on the two files
\* reduced to the rows of its group: nothing when the group has no charge
\* (the run returns before the loop), else the joined row of the first
\* charge of the highest score when that is 5 or more, else the unmatched
\* row of the "root" variant
RecordsAlone(line) ==
    LET ls == Ascending(GroupLines(line))
        cs == Ascending(GroupOf(line))
        idf == InvFrame(script, inv_columns, [i \in 1..Len(ls) |-> invoice_csv[ls[i]]])
        bdf == BillFrame(script, bill_columns, [j \in 1..Len(cs) |-> billing_csv[cs[j]]])
        p == CHOOSE i \in 1..Len(ls) : ls[i] = line
        scores == [j \in 1..Len(cs) |-> Score(script, idf[p], bdf[j])]
        top == SetMax({0} \cup {scores[j] : j \in 1..Len(cs)})
        first == CHOOSE j \in 1..Len(cs) :
                     /\ scores[j] = top
                     /\ \A h \in 1..(j - 1) : scores[h] < top
    IN IF cs = <<>> THEN {}
       ELSE IF top >= AcceptScore
            THEN {Record("joined", cs[first], top, "",
                         idf[p].inv_amount, bdf[first].bill_amount)}
            ELSE IF script = "root"
                 THEN {Record("unmatched", 0, top, NoteNoMatch, idf[p].inv_amount, None)}
                 ELSE {}

\* C19: when the run is over, the output records of every invoice line are
\* those of the run on its own group alone, whatever the other groups hold
\* and in whatever order the groups were taken.
C19_GroupsIndependent ==
    pc = "done" =>
        \A line \in DOMAIN invoice_csv : RecordsOf(line) = RecordsAlone(line)

\* the same for the lines whose group has a charge
C19_GroupsWithChargesIndependent ==
    pc = "done" =>
        \A line \in DOMAIN invoice_csv :
            GroupOf(line) # {} => RecordsOf(line) = RecordsAlone(line)

----------------------------------------------------------------------------
(* Statements about the mapping summary                                    *)

\* the pair of descriptions of a matched record
PairOfRow(row) == <<row.invoice_line_description, row.billing_charge_description>>

\* the pairs of descriptions among the matched records
MatchedPairs == {PairOfRow(joined_rows[i]) : i \in DOMAIN joined_rows}

\* number of matched records with a pair of descriptions
MatchedCount(pair) ==
    Cardinality({i \in DOMAIN joined_rows : PairOfRow(joined_rows[i]) = pair})

\* the rows of the summary for a pair of descriptions
SummaryRowsOf(pair) == {k \in DOMAIN mapping : PairOfRow(mapping[k]) = pair}

\* the summary of a finished run with matched records: a row for every pair
\* among them and for no other, one row each, with the number of records of
\* the pair, in order of descending count
SummaryOfMatched ==
    (pc = "done" /\ joined_rows # <<>>) =>
        /\ \A pair \in MatchedPairs :
              /\ Cardinality(SummaryRowsOf(pair)) = 1
              /\ \A k \in SummaryRowsOf(pair) : mapping[k].count = MatchedCount(pair)
        /\ \A k \in DOMAIN mapping : PairOfRow(mapping[k]) \in MatchedPairs
        /\ \A a, b \in DOMAIN mapping : a < b => mapping[a].count >= mapping[b].count

\* C20: the mapping summary of a finished run has exactly one row for every
\* pair of descriptions among the matched records, with the number of
\* matched records of that pair as its count, the rows in order of
\* descending count; and the step that computes it leaves the matched and
\* the unmatched records as they were.
C20_MappingSummary ==
    /\ []SummaryOfMatched
    /\ [][pc = "save" => UNCHANGED <<joined_rows, unmatched_rows>>]_vars

----------------------------------------------------------------------------
(* Statements about the choice among the charges of a group               *)

\* the score of an invoice line against a charge
PairScore(line, j) == Score(script, inv_df[line], bill_df[j])

\* C21: the charge of every matched record is a charge of the line's group
\* whose score no other charge of the group exceeds, and no charge before
\* it in the file reaches that score: among charges of equal highest score
\* the first is kept.
C21_HighestScoreFirstKept ==
    \A i \in DOMAIN joined_rows :
        LET r == joined_rows[i]
        IN /\ r.charge \in GroupOf(r.line)
           /\ r.score = PairScore(r.line, r.charge)
           /\ \A j \in GroupOf(r.line) :
                 /\ PairScore(r.line, j) <= r.score
                 /\ PairScore(r.line, j) = r.score => r.charge <= j

\* C21 witness: a finished run with a matched record whose group holds a
\* later charge of the same score
C21_Witness ==
    /\ pc = "done"
    /\ \E i \in DOMAIN joined_rows :
          \E j \in GroupOf(joined_rows[i].line) :
              /\ j > joined_rows[i].charge
              /\ PairScore(joined_rows[i].line, j) = joined_rows[i].score

----------------------------------------------------------------------------
(* Statements about the score of a pair                                    *)

\* the words of a description cell, upper-cased: the maximal runs of
\* characters other than blanks; none for an empty cell
WordsOf(cell) ==
    IF isna(cell) THEN {}
    ELSE LET s == upper(cell.s)
         IN {SubSeq(s, p[1], p[2]) :
                p \in {q \in (DOMAIN s) \X (DOMAIN s) :
                          /\ q[1] <= q[2]
                          /\ \A k \in q[1]..q[2] : ~IsSpace(s[k])
                          /\ q[1] = 1 \/ IsSpace(s[q[1] - 1])
                          /\ q[2] = Len(s) \/ IsSpace(s[q[2] + 1])}}

\* the words of every description cell of the files
WordsOfCell == [cell \in InvDescs \cup BillDescs \cup {Missing} |-> WordsOf(cell)]

\* number of distinct words the descriptions of a line and a charge share
CommonWords(line, j) ==
    Cardinality(WordsOfCell[invoice_csv[line].line_description]
                \cap WordsOfCell[billing_csv[j].charge_description])

\* the frames are built
Loaded == pc \in {"loaded", "join", "missing", "save", "done"}

\* C22: in the "root" variant the score of every pair of a line item and a
\* charge is the amount tier of their amounts plus the number of distinct
\* words their upper-cased descriptions share (none when either is empty),
\* and every matched record carries that score for its pair.
C22_ScoreIsTierPlusOverlap ==
    (script = "root" /\ Loaded) =>
        /\ \A line \in DOMAIN inv_df : \A j \in DOMAIN bill_df :
              PairScore(line, j) =
                  AmountTier(inv_df[line].inv_amount, bill_df[j].bill_amount)
                  + CommonWords(line, j)
        /\ \A i \in DOMAIN joined_rows :
              joined_rows[i].match_score =
                  <<AmountTier(joined_rows[i].invoice_amount, joined_rows[i].billing_amount)
                    + CommonWords(joined_rows[i].line, joined_rows[i].charge)>>

\* C22 witness: a matched record of a finished "root" run whose score is
\* made of an amount tier and of shared words
C22_Witness ==
    /\ script = "root"
    /\ pc = "done"
    /\ \E i \in DOMAIN joined_rows :
          /\ AmountTier(joined_rows[i].invoice_amount, joined_rows[i].billing_amount) > 0
          /\ CommonWords(joined_rows[i].line, joined_rows[i].charge) > 0
          /\ \E k \in DOMAIN joined_rows :
                CommonWords(joined_rows[k].line, joined_rows[k].charge) = 0

\* C23: in every matched record the invoice amount and the billing amount
\* are both present and differ by less than 1.00.
C23_MatchedAmountsWithinOne ==
    \A i \in DOMAIN joined_rows :
        /\ joined_rows[i].invoice_amount.k = "num"
        /\ joined_rows[i].billing_amount.k = "num"
        /\ Abs(joined_rows[i].invoice_amount.n - joined_rows[i].billing_amount.n) < TolNear

----------------------------------------------------------------------------
(* Statements about the line items kept by extract_invoice_data            *)

IsLineItem(entity) == entity.obj /\ entity.type = Str(<<"l", "i", "n", "e", "_", "i", "t", "e", "m">>)

\* the line-item entity has a non-empty description (its description
\* property, else its cleaned text) or an amount that is not null
HasDescriptionOrAmount(entity) ==
    LET props == ReadProps(NoProps, entity.properties, 1)
        full_text == strip(GetOrEmpty(entity.mentionText).s)
        desc == IF Truthy(props.description) THEN props.description.s
                ELSE clean_description(full_text)
    IN desc # <<>> \/ props.amount.k = "num"

\* C24: for every document read without an exception, the invoice keeps
\* exactly the line-item entities that have a non-empty description or a
\* non-null amount, in their order: as many line items as there are such
\* entities.
C24_RetainedIffDescriptionOrAmount ==
    \A i \in 1..file_i :
        LET r == Extracted[json_files[i]]
            entities == extract_entities(json_files[i])
        IN (~r.raised /\ r.error = "") =>
              Len(r.invoice.line_items) =
                  Cardinality({k \in DOMAIN entities :
                                  /\ IsLineItem(entities[k])
                                  /\ HasDescriptionOrAmount(entities[k])})

----------------------------------------------------------------------------
(* Header fields                                                           *)

HeaderFields ==
    {"account_number", "invoice_number", "invoice_date", "vendor_name",
     "location_code", "service_address", "total_amount"}

\* the entities of a list that give a value to the header field f, in the
\* order of the list
MappingTo(entities, f) ==
    {k \in DOMAIN entities : ReadHeader(EmptyInvoice, entities[k])[f] # None}

\* C25: for every header field of a document read without an exception, the
\* field holds the value of the first entity of the document, in its native
\* order, that maps to the field; later entities mapping to it do not change
\* it
C25_FirstHeaderEntityKept ==
    \A i \in 1..file_i :
        LET r == Extracted[json_files[i]]
            entities == extract_entities(json_files[i])
        IN (~r.raised /\ r.error = "") =>
              \A f \in HeaderFields :
                  LET ks == MappingTo(entities, f)
                  IN ks # {} =>
                        LET first == CHOOSE k \in ks : \A h \in ks : k <= h
                        IN r.invoice[f] = ReadHeader(EmptyInvoice, entities[first])[f]

\* what the code does: the last entity mapping to the field is the one kept
C25_LastHeaderEntityKept ==
    \A i \in 1..file_i :
        LET r == Extracted[json_files[i]]
            entities == extract_entities(json_files[i])
        IN (~r.raised /\ r.error = "") =>
              \A f \in HeaderFields :
                  LET ks == MappingTo(entities, f)
                  IN ks # {} =>
                        LET last == CHOOSE k \in ks : \A h \in ks : h <= k
                        IN r.invoice[f] = ReadHeader(EmptyInvoice, entities[last])[f]

----------------------------------------------------------------------------
(* The billing amount of a charge                                          *)

\* the first of the aliases 'cost', 'price' that the file has with a value
\* in the row; null when there is none
FirstAlias(cols, bill_row) ==
    IF "cost" \in cols /\ ~isna(bill_row.cost) THEN bill_row.cost
    ELSE IF "price" \in cols /\ ~isna(bill_row.price) THEN bill_row.price
    ELSE None

\* two amounts are the same number, or both null
SameAmount(a, b) == IF isna(a) \/ isna(b) THEN isna(a) /\ isna(b) ELSE a = b

\* C26: the amount of a charge is that of the first of 'cost', 'price' that
\* is present with a non-null value: the price for a row with a null cost
\* and a price, the cost for a row with a cost, 0 included
C26_CostThenPrice ==
    \A j \in DOMAIN bill_df :
        SameAmount(bill_df[j].bill_amount, FirstAlias(bill_columns, billing_csv[j]))

\* the same for the rows of files with one amount column at most, or with a
\* cost that is neither empty nor 0
C26_SingleAliasOrCostSet ==
    \A j \in DOMAIN bill_df :
        (\/ ~({"cost", "price"} \subseteq bill_columns)
         \/ (~isna(billing_csv[j].cost) /\ billing_csv[j].cost # Num(0))) =>
            SameAmount(bill_df[j].bill_amount, FirstAlias(bill_columns, billing_csv[j]))

\* where the two variants leave the order of the aliases
C26_RootNullCost ==
    \A j \in DOMAIN bill_df :
        (script = "root" /\ {"cost", "price"} \subseteq bill_columns
            /\ isna(billing_csv[j].cost)) => isna(bill_df[j].bill_amount)
C26_CnmZeroCost ==
    \A j \in DOMAIN bill_df :
        (script = "cnm" /\ {"cost", "price"} \subseteq bill_columns) =>
            /\ billing_csv[j].cost = Num(0) => bill_df[j].bill_amount = billing_csv[j].price
            /\ isna(billing_csv[j].cost) => isna(bill_df[j].bill_amount)

----------------------------------------------------------------------------
(* Monetary fields                                                         *)

\* the properties and entities of a document that parse_money_value reads:
\* the amount and unit price of every line item and the total of the
\* invoice, as (mentionText, normalizedValue)
MoneyProps(entities) ==
    LET Money(p) == [mentionText |-> p.mentionText, normalizedValue |-> p.normalizedValue]
        IsMoney(p) ==
            /\ p.type.k = "str"
            /\ \/ lower(p.type.s) = <<"l", "i", "n", "e", "_", "i", "t", "e", "m", "/", "a", "m", "o", "u", "n", "t">>
               \/ contains(<<"u", "n", "i", "t", "_", "p", "r", "i", "c", "e">>, lower(p.type.s))
    IN UNION {{Money(entities[k].properties[q]) :
                  q \in {q \in DOMAIN entities[k].properties :
                            IsMoney(entities[k].properties[q])}} :
              k \in {k \in DOMAIN entities : IsLineItem(entities[k])}}
       \cup {Money(entities[k]) :
                k \in {k \in DOMAIN entities :
                          /\ entities[k].obj /\ entities[k].type.k = "str"
                          /\ lower(entities[k].type.s) \in TotalTypes}}

\* the money values of the documents read so far
MoneyRead == UNION {MoneyProps(extract_entities(json_files[i])) : i \in 1..file_i}

\* a typed money value is present
Typed(p) == p.normalizedValue.k = "money"

\* units + nanos / 1e9 in hundredths, when both are whole numbers
TypedNumber(p) ==
    LET units == IntOrZero(p.normalizedValue.units)
        nanos == IntOrZero(p.normalizedValue.nanos)
    IN IF units = Raised \/ nanos = Raised THEN None
       ELSE Num(100 * units.n + (nanos.n \div 10000000))

\* the number of the mention text without its non-numeric characters
MentionNumber(p) ==
    IF p.mentionText.k # "str" THEN None
    ELSE LET f == PyFloat(MoneyChars(p.mentionText.s))
         IN IF f = Raised THEN None ELSE f

\* C27: a typed money value, when present, is the value and the mention
\* text is ignored; otherwise the mention text without its non-numeric
\* characters is parsed; when neither yields a number the field is null;
\* no error is raised
C27_MoneyPrecedence ==
    \A p \in MoneyRead :
        LET v == parse_money_value(p)
        IN /\ v # Raised
           /\ (Typed(p) /\ TypedNumber(p) # None) => v = TypedNumber(p)
           /\ ~Typed(p) => v = MentionNumber(p)
           /\ ((~Typed(p) \/ TypedNumber(p) = None) /\ MentionNumber(p) = None) => v = None

\* the same for every money value but a typed one that is not a whole
\* number
C27_PrecedenceOfConvertible ==
    \A p \in MoneyRead :
        (Typed(p) => TypedNumber(p) # None) =>
            LET v == parse_money_value(p)
            IN /\ v # Raised
               /\ Typed(p) => v = TypedNumber(p)
               /\ ~Typed(p) => v = MentionNumber(p)

\* a typed value that differs from its mention text, a mention text that is
\* parsed and one that is not have been read
C27_PrecedenceSeen ==
    /\ \E p \in MoneyRead : Typed(p) /\ TypedNumber(p) \notin {None, MentionNumber(p)}
    /\ \E p \in MoneyRead : ~Typed(p) /\ MentionNumber(p) # None
    /\ \E p \in MoneyRead : ~Typed(p) /\ MentionNumber(p) = None

----------------------------------------------------------------------------
(* Statements about the score and the variance written on the records      *)

\* the highest total score of a line over the charges of its group
MaxTotal(line) ==
    IF GroupOf(line) = {} THEN 0
    ELSE SetMax({PairScore(line, j) : j \in GroupOf(line)})

\* the record carries the score, and the fields of a charge that attains it
FromBestCandidate(r) ==
    /\ r.match_score = <<MaxTotal(r.line)>>
    /\ r.charge \in GroupOf(r.line)
    /\ PairScore(r.line, r.charge) = MaxTotal(r.line)
    /\ r.billing_amount = bill_df[r.charge].bill_amount
    /\ r.billing_charge_description = bill_df[r.charge].charge_description

\* every record written for a line whose group exists carries the highest
\* score of the line, matched or not
ScoresAreMaxima ==
    /\ \A i \in DOMAIN joined_rows : FromBestCandidate(joined_rows[i])
    /\ \A i \in DOMAIN unmatched_rows :
          GroupOf(unmatched_rows[i].line) # {} =>
              unmatched_rows[i].match_score = MaxTotal(unmatched_rows[i].line)

\* C28: in the "root" variant the match_score of every record of a line
\* whose group exists is the highest total score over the charges of the
\* group (0 when no charge scores), and every matched record has the
\* billing fields of a charge that attains it and, as amount_variance, the
\* invoice amount minus the amount of that charge
C28_ScoreAndVarianceFromBest ==
    script = "root" =>
        /\ ScoresAreMaxima
        /\ \A i \in DOMAIN joined_rows :
              LET r == joined_rows[i]
              IN (r.invoice_amount.k = "num" /\ r.billing_amount.k = "num") =>
                    r.amount_variance = <<Num(r.invoice_amount.n - r.billing_amount.n)>>

\* the same without the variance of a line whose amount is 0.00
C28_ScoreAndVarianceOfNonZero ==
    script = "root" =>
        /\ ScoresAreMaxima
        /\ \A i \in DOMAIN joined_rows :
              LET r == joined_rows[i]
              IN (r.invoice_amount.k = "num" /\ r.billing_amount.k = "num"
                     /\ r.invoice_amount.n # 0) =>
                    r.amount_variance = <<Num(r.invoice_amount.n - r.billing_amount.n)>>

\* a matched record with a variance that is not 0 and an unmatched record
\* with a score above 0 have been written
C28_ScoresSeen ==
    /\ script = "root"
    /\ \E i \in DOMAIN joined_rows : joined_rows[i].amount_variance = <<Num(-50)>>
    /\ \E i \in DOMAIN unmatched_rows :
          /\ unmatched_rows[i].match_score > 0
          /\ unmatched_rows[i].note = NoteNoMatch

----------------------------------------------------------------------------
(* download_vendor_jsons: the three variants ("root", "cnm", "scripts").   *)
(* A run reads the CSV, cleans it and visits the rows vendor by vendor;    *)
(* what the bucket answers for a row is chosen when the row is visited.    *)

MaxMd5s == 3

\* the labels of the rows left by the cleaning: "root" and "cnm" drop the
\* rows without vendor or MD5 and those whose stripped MD5 is '', "scripts"
\* only the rows without MD5 or with the MD5 ''
CleanedRows(variant, csv) ==
    {i \in DOMAIN csv :
        IF variant = "scripts"
        THEN ~isna(csv[i].invoice_md5) /\ csv[i].invoice_md5.s # <<>>
        ELSE /\ ~isna(csv[i].vendor_name) /\ ~isna(csv[i].invoice_md5)
             /\ strip(astype_str(csv[i].invoice_md5)) # <<>>}

\* the labels of the rows in the order the two loops visit them: the
\* vendors in the order of unique() (first appearance; "cnm": of groupby,
\* sorted by name, which for the names of these files is the order of
\* their first letters), under each vendor its rows in file order.  The
\* rows of a vendor are those whose vendor_name == vendor, which no row
\* satisfies for the vendor NaN.
RowOrder(variant, csv) ==
    LET kept == CleanedRows(variant, csv)
        visited == {i \in kept : ~isna(csv[i].vendor_name)}
        first(v) == CHOOSE i \in visited :
                        /\ csv[i].vendor_name = v
                        /\ \A h \in visited : csv[h].vendor_name = v => i <= h
        rank(v) == IF variant = "cnm"
                   THEN CHOOSE n \in 1..26 : Uppers[n] = v.s[1]
                   ELSE first(v)
        before(i, h) ==
            \/ rank(csv[i].vendor_name) < rank(csv[h].vendor_name)
            \/ csv[i].vendor_name = csv[h].vendor_name /\ i < h
    IN CHOOSE order \in [1..Cardinality(visited) -> visited] :
           \A a, b \in DOMAIN order : a < b => before(order[a], order[b])

\* the counter one MD5 adds to.  plain and json are what the bucket holds
\* under the MD5 and under MD5.json ("present", "absent", or "error" when
\* the request raises), write is "error" when the download raises, exists
\* says whether the local file is there already.
Outcome(variant, plain, json, write, exists) ==
    LET fetched == IF write = "error" THEN "errors" ELSE "downloaded"
    IN CASE variant = "root" ->
               IF plain = "error" THEN "errors"
               ELSE IF plain = "present" THEN fetched
               ELSE IF json = "error" THEN "errors"
               ELSE IF json = "present" THEN fetched
               ELSE "not_found"
         [] variant = "cnm" ->
               IF json = "error" THEN "errors"
               ELSE IF json = "present" THEN fetched
               ELSE IF plain = "error" THEN "errors"
               ELSE IF plain = "present" THEN fetched
               ELSE "not_found"
         [] variant = "scripts" ->
               IF exists THEN "skipped"
               ELSE IF plain = "present" /\ write = "ok" THEN "downloaded"
               ELSE "not_found"

\* the state when the loop over the vendors begins: the CSV is read and
\* cleaned, the counters are 0, the output folder holds no file
InitDownload ==
    /\ downloader \in {"root", "cnm", "scripts"}
    /\ \E n \in 0..MaxMd5s :
          md5_csv \in [1..n -> [vendor_name : {Str(<<"A">>), Str(<<"B">>), NaN},
                                invoice_md5 : {Str(<<"m", "1">>), NaN}]]
    /\ local_files = {}
    /\ stats = [downloaded |-> 0, not_found |-> 0, errors |-> 0, skipped |-> 0]
    /\ todo = RowOrder(downloader, md5_csv)
    /\ counted = <<>>
    /\ dl_pc = "loop"
    /\ JoinIdle
    /\ TierIdle
    /\ ClassifyIdle
    /\ ExtractIdle

\* one pass of the loop over the MD5s of a vendor
DownloadOne ==
    /\ dl_pc = "loop"
    /\ todo # <<>>
    /\ \E plain, json \in {"present", "absent", "error"} : \E write \in {"ok", "error"} :
          \E row \in {md5_csv[Head(todo)]} :
          \E local_path \in {<<row.vendor_name.s, astype_str(row.invoice_md5)>>} :
          \E counter \in {Outcome(downloader, plain, json, write,
                                  local_path \in local_files)} :
              /\ stats' = [stats EXCEPT ![counter] = @ + 1]
              /\ counted' = Append(counted, [row |-> Head(todo), counter |-> counter])
              /\ local_files' = IF counter = "downloaded"
                                THEN local_files \cup {local_path}
                                ELSE local_files
    /\ todo' = Tail(todo)
    /\ UNCHANGED <<downloader, md5_csv, dl_pc>>
    /\ UNCHANGED <<joinVars, tierVars, classifyVars, extractVars>>

\* the summary is printed and the function returns
FinishDownload ==
    /\ dl_pc = "loop"
    /\ todo = <<>>
    /\ dl_pc' = "done"
    /\ UNCHANGED <<downloader, md5_csv, local_files, stats, todo, counted>>
    /\ UNCHANGED <<joinVars, tierVars, classifyVars, extractVars>>

NextDownload == DownloadOne \/ FinishDownload

SpecDownload == InitDownload /\ [][NextDownload]_vars

----------------------------------------------------------------------------
(* Statements about download_vendor_jsons (SpecDownload)                   *)

\* the sum of the four counters
CounterSum == stats.downloaded + stats.not_found + stats.errors + stats.skipped

\* how many increments the row has caused
TimesCounted(i) == Cardinality({k \in DOMAIN counted : counted[k].row = i})

\* C29: at the end of a run every MD5 of the list (the rows left by the
\* cleaning of the variant) has added to exactly one of the counters
\* downloaded, not_found, errors and skipped, whatever happened to the
\* MD5s before it, and the counters sum to the number of these rows
C29_EveryMd5CountedOnce ==
    dl_pc = "done" =>
        /\ \A i \in CleanedRows(downloader, md5_csv) : TimesCounted(i) = 1
        /\ CounterSum = Cardinality(CleanedRows(downloader, md5_csv))

\* the same for the MD5s that have a vendor
C29_EveryMd5OfAVendorCountedOnce ==
    LET rows == {i \in CleanedRows(downloader, md5_csv) : ~isna(md5_csv[i].vendor_name)}
    IN /\ CounterSum = Len(counted)
       /\ \A i \in rows : TimesCounted(i) = IF \E k \in DOMAIN todo : todo[k] = i THEN 0 ELSE 1
       /\ dl_pc = "done" => CounterSum = Cardinality(rows)

\* a run has ended in which an MD5 was counted after one that failed
C29_CountedAfterFailure ==
    /\ dl_pc = "done"
    /\ \E k \in DOMAIN counted :
          /\ counted[k].counter \in {"errors", "not_found"}
          /\ k < Len(counted)
          /\ counted[k + 1].counter \in {"downloaded", "skipped"}

====
